---- MODULE Spec2Model ----
(***************************************************************************)
(* Storefront client: the cart view (CartPage), the error prettifiers of   *)
(* the cart and checkout views, and the orders view (OrdersPage).          *)
(*                                                                         *)
(* Conventions.  A JS value that is only ever tested for truthiness is     *)
(* modelled by its falsy representative: an absent / null / "" string is   *)
(* the empty sequence, an absent / null / 0 number is 0.  Texts are        *)
(* sequences of tokens (a token stands for a run of characters).           *)
(***************************************************************************)
EXTENDS Integers, Sequences, FiniteSets, TLC

\* ------------------------------------------------------------------ bounds
MaxOps == 3        \* user-started operations of one cart view
MaxTextLen == 3    \* tokens in a server-provided error text
MaxLoads == 3      \* load() calls of one orders view
MaxAuthOps == 3    \* set / clear calls on the auth store
MaxQuotes == 4     \* quote requests of one checkout view
MaxSubmits == 2    \* requests a form view sends
MaxAdminOps == 2   \* toggle / delete clicks of one admin list
MaxKeys == 4       \* debouncedFetch calls of one search bar
MaxFetches == 4    \* effect runs of one fetching component
MaxMyLoads == 3    \* load() calls of one personal-orders view
MaxFilterOps == 4  \* inputs and clicks on the filter panel

\* ------------------------------------------------------------------- state
\* the cart view (CartPage)
VARIABLES
  cart,      \* useState(null): the cart snapshot
  code,      \* the coupon input
  err,       \* the error message shown
  busy,      \* coupon operation in flight
  busyIds,   \* item ids with a line mutation in flight
  ops,       \* the async calls of the view that have not run to their end
  srv,       \* the backend's cart
  lastLand,  \* history: the reload that settled last
  held,      \* history: the quantities the backend has held for each line
  hist       \* history: what the user has started and what succeeded

cartVars == <<cart, code, err, busy, busyIds, ops, srv, lastLand, held, hist>>

\* one call of changeQty, for the quantity it sends
VARIABLES
  reqCart,   \* the snapshot the handler closes over: one line and a policy
  reqQty,    \* the nextQty passed to changeQty
  patchQty,  \* the qty of the PATCH body, 0 before the call
  shownQty   \* the qty of the line after the optimistic setCart, 0 before

clampVars == <<reqCart, reqQty, patchQty, shownQty>>

\* one failed server call, for the message shown
VARIABLES
  errE,      \* the rejection: status, data.detail, data.message
  errFlow,   \* the flow whose catch block handled it, "none" before
  errMsg     \* the message that flow shows

errVars == <<errE, errFlow, errMsg>>

\* the orders view (OrdersPage)
VARIABLES
  token,      \* localStorage "jwt_access", <<>> when absent
  userEmail,  \* localStorage "user_email", <<>> when absent
  isAuthed,   \* useMemo(() => !!auth.access(), [])
  loadedRef,  \* useRef(false)
  orders,     \* useState(null): shown is FALSE for null
  ordErr,     \* useState("")
  loads,      \* the load() calls that have not run to their end
  nLoads      \* load() calls made so far

ordVars == <<token, userEmail, isAuthed, loadedRef, orders, ordErr, loads, nLoads>>

\* the auth store and the API client (lib/auth.js, lib/api.js)
VARIABLES
  stored,    \* localStorage "jwt_access", <<>> when absent
  authLog,   \* history: the set / clear calls made, oldest first
  sent       \* the request that left the client last

authVars == <<stored, authLog, sent>>

\* the form views: checkout (CheckoutPage), login (Login), admin coupons
\* (AdminCoupons); one of them is mounted
VARIABLES
  route,       \* the view that is mounted, "none" when none of the three is
  cartTotals,  \* CheckoutPage useState(null): known is FALSE for null
  coLoads,     \* ids of the cart GETs of CheckoutPage still in flight
  quotes,      \* CheckoutPage useState([]): the ids of the quotes, in order
  shippingId,  \* CheckoutPage useState(null): 0 for null
  qreqs,       \* the loadQuotes calls that have not run to their end
  nQuotes,     \* quote requests sent so far
  formOk,      \* the required fields of the mounted form are filled in
  loading,     \* CheckoutPage loading / Login busy / AdminCoupons busy
  order,       \* CheckoutPage useState(null): 0 for null, else the order id
  formErr,     \* err of the mounted form view
  subs,        \* the submissions that have not run to their end
  nSubs,       \* submissions sent so far
  trig,        \* history: what the last submit trigger did
  lastQuote    \* history: how the last finished loadQuotes call ended

viewVars == <<route, cartTotals, coLoads, quotes, shippingId, qreqs, nQuotes,
              formOk, loading, order, formErr, subs, nSubs, trig, lastQuote>>

\* the list of an admin view (AdminCoupons, AdminBanners)
VARIABLES
  rows,       \* useState([]): the rows shown
  srvRows,    \* the backend's rows
  adminOps,   \* toggle / delete / mount calls that have not run to their end
  nAdminOps,  \* toggle / delete clicks so far
  adminLog    \* history: the last prompt or mutation outcome

adminVars == <<rows, srvRows, adminOps, nAdminOps, adminLog>>

\* the search bar (SearchBar)
VARIABLES
  query,        \* useState(""): q, the input's value
  suggestions,  \* useState([]): the suggestions shown
  sLoading,     \* useState(false): loading
  timers,       \* the debounce timers that are armed
  debounceRef,  \* debounceRef.current: id of the timer set last, 0 for null
  sreqs,        \* the suggestion requests that have not run to their end
  abortRef,     \* abortRef.current: id of the controller, 0 for null
  nKeys,        \* debouncedFetch calls so far
  lastTerm      \* history: the term of the last debouncedFetch call

searchVars == <<query, suggestions, sLoading, timers, debounceRef, sreqs, abortRef,
                nKeys, lastTerm>>

\* a fetching component (CategoryBelt, FeaturedCategories, BrandStrip,
\* ProductRail)
VARIABLES
  fKind,     \* which of the four components
  fAlive,    \* the component is mounted
  fKey,      \* ProductRail: the source / params of the current effect run
  fData,     \* items / cats / brands / data
  fLoading,  \* ProductRail: loading
  fErr,      \* ProductRail: err
  freqs,     \* the GETs that have not run to their end
  fAborted,  \* the controllers that were aborted
  nFetch     \* controllers created so far; the last one is the current one

fetchVars == <<fKind, fAlive, fKey, fData, fLoading, fErr, freqs, fAborted, nFetch>>

\* the admin guard (AdminGuard)
VARIABLES
  gOk,       \* useState(null): ok, as "null", "true" or "false"
  gRoute,    \* where the router is: "admin", "login" or "home"
  gEffects,  \* runs of the effect still to come
  gchecks,   \* the staff checks that have not run to their end
  gLanded    \* history: the answers this guard has handled

guardVars == <<gOk, gRoute, gEffects, gchecks, gLanded>>

\* the personal-orders view (MyOrders)
VARIABLES
  moOrders,       \* useState(null): orders
  moErr,          \* useState(""): err
  moLoading,      \* useState(true): loading
  redirectedRef,  \* redirectedRef.current
  moReqs,         \* the GETs that have not run to their end
  moNavs,         \* the nav(...) calls of the view, in order
  moEffects,      \* runs of the effect still to come
  moCalls         \* load() calls so far

moVars == <<moOrders, moErr, moLoading, redirectedRef, moReqs, moNavs, moEffects,
            moCalls>>

\* the catalogue filters (Filters)
VARIABLES
  fltBrand,  \* useState: brand
  fltMin,    \* useState: min
  fltMax,    \* useState: max
  url,       \* the query of the URL: brand, price_min, price_max, page
  fltLog,    \* what the panel did last
  nFlt       \* inputs and clicks so far

fltVars == <<fltBrand, fltMin, fltMax, url, fltLog, nFlt>>

\* the quote service as the checkout view meets it
VARIABLES
  quoteServer  \* whether its answer is fixed, the answer, and nQuotes then

envVars == <<quoteServer>>

vars == <<cartVars, clampVars, errVars, ordVars, authVars, viewVars, adminVars, searchVars, fetchVars, guardVars, moVars, fltVars, envVars>>
NotCart == <<clampVars, errVars, ordVars, authVars, viewVars, adminVars, searchVars, fetchVars, guardVars, moVars, fltVars, envVars>>
NotClamp == <<cartVars, errVars, ordVars, authVars, viewVars, adminVars, searchVars, fetchVars, guardVars, moVars, fltVars, envVars>>
NotErr == <<cartVars, clampVars, ordVars, authVars, viewVars, adminVars, searchVars, fetchVars, guardVars, moVars, fltVars, envVars>>
NotOrd == <<cartVars, clampVars, errVars, authVars, viewVars, adminVars, searchVars, fetchVars, guardVars, moVars, fltVars, envVars>>
NotAuth == <<cartVars, clampVars, errVars, ordVars, viewVars, adminVars, searchVars, fetchVars, guardVars, moVars, fltVars, envVars>>
NotView == <<cartVars, clampVars, errVars, ordVars, authVars, adminVars, searchVars, fetchVars, guardVars, moVars, fltVars, envVars>>
NotForm == <<cartVars, clampVars, errVars, ordVars, authVars, searchVars, fetchVars, guardVars, moVars, fltVars, envVars>>
NotAdmin == <<cartVars, clampVars, errVars, ordVars, authVars, viewVars, searchVars, fetchVars, guardVars, moVars, fltVars, envVars>>
NotSearch == <<cartVars, clampVars, errVars, ordVars, authVars, viewVars, adminVars, fetchVars, guardVars, moVars, fltVars, envVars>>
NotFetch == <<cartVars, clampVars, errVars, ordVars, authVars, viewVars, adminVars, searchVars, guardVars, moVars, fltVars, envVars>>
NotGuard == <<cartVars, clampVars, errVars, ordVars, authVars, viewVars, adminVars, searchVars, fetchVars, moVars, fltVars, envVars>>
NotMo == <<cartVars, clampVars, errVars, ordVars, authVars, viewVars, adminVars, searchVars, fetchVars, guardVars, fltVars, envVars>>
NotFlt == <<cartVars, clampVars, errVars, ordVars, authVars, viewVars, adminVars, searchVars, fetchVars, guardVars, moVars, envVars>>
NotEnv == <<cartVars, clampVars, errVars, ordVars, authVars, viewVars, adminVars, searchVars, fetchVars, guardVars, moVars, fltVars>>

\* ------------------------------------------------------------- cart values
ItemIds == {1, 2}

\* the JS null held by `cart` before the first load lands
NullCart ==
  [present |-> FALSE, version |-> 0, items |-> <<>>, subtotal |-> 0,
   discount_total |-> 0, tax_total |-> 0, shipping_total |-> 0,
   grand_total |-> 0, coupon |-> <<>>, max_qty |-> 0]

\* the object load() substitutes when the GET fails
EmptyCart ==
  [present |-> TRUE, version |-> 0, items |-> <<>>, subtotal |-> 0,
   discount_total |-> 0, tax_total |-> 0, shipping_total |-> 0,
   grand_total |-> 0, coupon |-> <<>>, max_qty |-> 0]

\* ---------------------------------------------------------- error payloads
\* status 0: no response at all (transport error)
NoError == [status |-> 200, detail |-> <<>>, message |-> <<>>]
ENet == [status |-> 0, detail |-> <<>>, message |-> <<>>]
E429 == [status |-> 429, detail |-> <<>>, message |-> <<>>]
E409 == [status |-> 409, detail |-> <<"Available:", " ", "3">>, message |-> <<>>]
CartErrs == {ENet, E429, E409}

\* a || b || c on strings
Or3(a, b, c) == IF a # <<>> THEN a ELSE IF b # <<>> THEN b ELSE c

\* ------------------------------------------------- /Available:\s*(\d+)/i
AvailTokens == {"Available:", "AVAILABLE:"}
Digits == <<"0", "1", "2", "3", "4", "5", "6", "7", "8", "9">>
IsDigit(t) == \E d \in 1..10 : Digits[d] = t
DigitVal(t) == (CHOOSE d \in 1..10 : Digits[d] = t) - 1

RECURSIVE SkipSpaces(_, _)
SkipSpaces(s, p) ==
  IF p <= Len(s) /\ s[p] = " " THEN SkipSpaces(s, p + 1) ELSE p

RECURSIVE DigitRun(_, _)
DigitRun(s, p) ==
  IF p <= Len(s) /\ IsDigit(s[p]) THEN <<s[p]>> \o DigitRun(s, p + 1) ELSE <<>>

\* the capture group of the match anchored at position p, <<>> if none
MatchAt(s, p) ==
  IF s[p] \in AvailTokens THEN DigitRun(s, SkipSpaces(s, p + 1)) ELSE <<>>

\* m[1] of String(raw).match(...): the leftmost match, <<>> when m is null
MatchAvailable(raw) ==
  LET hits == {p \in 1..Len(raw) : MatchAt(raw, p) # <<>>}
  IN IF hits = {} THEN <<>>
     ELSE MatchAt(raw, CHOOSE p \in hits : \A r \in hits : p <= r)

RECURSIVE ToNumber(_)
ToNumber(ds) ==
  IF ds = <<>> THEN 0
  ELSE 10 * ToNumber(SubSeq(ds, 1, Len(ds) - 1)) + DigitVal(ds[Len(ds)])

RECURSIVE NumberToText(_)
NumberToText(n) ==
  IF n < 10 THEN <<Digits[n + 1]>>
  ELSE NumberToText(n \div 10) \o <<Digits[(n % 10) + 1]>>

\* ----------------------------------------------------------- the messages
MsgQty429 == <<"You're doing that too quickly. Please slow down and try again.">>
MsgQtyFallback == <<"Could not update quantity.">>
MsgCoupon429 == <<"Too many attempts. Please wait a moment and try again.">>
MsgCouponFallback == <<"Coupon failed. Check the code and try again.">>
MsgCheckout429 == <<"Too many requests - please try again in a moment.">>
MsgCheckoutFallback == <<"Could not place order.">>
MsgLoadFallback == <<"Could not load cart. Please refresh the page.">>
MsgRemoveFallback == <<"Could not remove item. Please retry.">>
MsgUncouponFallback == <<"Could not remove coupon. Please retry.">>
NoErr == <<>>

\* a prettifier that never parses the availability hint
prettifyQtyRaw(e) ==
  IF e.status = 429 THEN MsgQty429
  ELSE Or3(e.detail, e.message, MsgQtyFallback)

prettifyQtyError(e) ==
  IF e.status = 429 THEN MsgQty429
  ELSE LET raw == Or3(e.detail, e.message, MsgQtyFallback)
           m == MatchAvailable(raw)
       IN IF e.status = 409 /\ m # <<>>
          THEN <<"Stock changed - only ">> \o NumberToText(ToNumber(m)) \o <<" left.">>
          ELSE raw

prettifyError(e) ==
  IF e.status = 429 THEN MsgCheckout429
  ELSE LET raw == Or3(e.detail, e.message, MsgCheckoutFallback)
           m == MatchAvailable(raw)
       IN IF e.status = 409 /\ m # <<>>
          THEN <<"Stock changed - only ">> \o m \o <<" left on one or more items.">>
          ELSE raw

\* the msg of applyCoupon's catch block
applyCouponMsg(e) ==
  Or3(e.detail, e.message,
      IF e.status = 429 THEN MsgCoupon429 ELSE MsgCouponFallback)

\* ------------------------------------------------------------ cart helpers
\* Number(cart?.max_qty || 0) || null, with 0 for null
maxQty(c) == c.max_qty

\* a clamp without the maximum
ClampMinOnly(nextQty, mq) == IF nextQty < 1 THEN 1 ELSE nextQty

\* the first two statements of changeQty
ClampQty(nextQty, mq) ==
  LET a == IF nextQty < 1 THEN 1 ELSE nextQty
  IN IF mq # 0 /\ a > mq THEN mq ELSE a

\* a map that writes the quantity into every line
MapQtyAll(items, itemId, q) ==
  [k \in 1..Len(items) |-> [items[k] EXCEPT !.qty = q]]

\* (cart?.items || []).map(it => it.id === itemId ? {...it, qty} : it)
MapQty(items, itemId, q) ==
  [k \in 1..Len(items) |->
     IF items[k].id = itemId THEN [items[k] EXCEPT !.qty = q] ELSE items[k]]

\* a checkout control that ignores the items
alwaysCheckout(c) == TRUE

\* const canCheckout = items.length > 0
canCheckout(c) == Len(c.items) > 0

\* the branch items.length === 0 of the items card: "Your cart is empty"
ShowsEmptyCart(c) == c.present /\ Len(c.items) = 0

\* the checkout control: the link to /checkout, or the disabled button
CheckoutControl(c) == IF canCheckout(c) THEN "link" ELSE "disabled"

HasItem(c, i) == \E k \in 1..Len(c.items) : c.items[k].id = i
QtyOf(c, i) == c.items[CHOOSE k \in 1..Len(c.items) : c.items[k].id = i].qty

\* String.prototype.trim on a text whose tokens are single characters
RECURSIVE TrimLeft(_)
TrimLeft(s) == IF s # <<>> /\ Head(s) = " " THEN TrimLeft(Tail(s)) ELSE s
RECURSIVE TrimRight(_)
TrimRight(s) ==
  IF s # <<>> /\ s[Len(s)] = " " THEN TrimRight(SubSeq(s, 1, Len(s) - 1)) ELSE s
Trim(s) == TrimRight(TrimLeft(s))

\* ------------------------------------------------------- backend (cart API)
Price == [i \in ItemIds |-> 10 * i]

RECURSIVE LinesFrom(_, _)
LinesFrom(lines, i) ==
  IF i > Cardinality(ItemIds) THEN <<>>
  ELSE (IF lines[i] > 0 THEN <<[id |-> i, qty |-> lines[i]]>> ELSE <<>>)
       \o LinesFrom(lines, i + 1)

RECURSIVE SubtotalFrom(_, _)
SubtotalFrom(lines, i) ==
  IF i > Cardinality(ItemIds) THEN 0
  ELSE lines[i] * Price[i] + SubtotalFrom(lines, i + 1)

\* the body of a successful GET /cart/
CartOf(s) ==
  LET sub == SubtotalFrom(s.lines, 1)
      disc == IF s.coupon # <<>> /\ sub > 0 THEN 5 ELSE 0
  IN [present |-> TRUE, version |-> s.version, items |-> LinesFrom(s.lines, 1),
      subtotal |-> sub, discount_total |-> disc, tax_total |-> 0,
      shipping_total |-> 0, grand_total |-> sub - disc,
      coupon |-> s.coupon, max_qty |-> s.max_qty]

\* ============================================================ the cart view
CodeInputs == {<<" ", "S">>}
InitLines == [i \in ItemIds |-> i]
MaxQtyPolicies == {0, 2}
LineKinds == {"qty", "remove"}
CouponKinds == {"apply", "uncoupon"}

\* an async call: pc is "call" (mutation request sent), "resp" (the backend
\* has applied it), "get" (load()'s GET sent), "getresp" (the backend has
\* answered the GET with data)
NewOp(kind, item, qty, cd, prev, pc) ==
  [kind |-> kind, item |-> item, qty |-> qty, code |-> cd, prev |-> prev,
   pc |-> pc, data |-> NullCart]

CanStart == hist.n < MaxOps
Started(kind) ==
  [hist EXCEPT !.n = @ + 1,
               !.kinds = @ \cup {kind},
               !.race = @ \/ (kind = "qty" /\ \E r \in ops : r.kind = "apply")
                          \/ (kind = "apply" /\ \E r \in ops : r.kind = "qty")]

\* a row that is disabled by the coupon flag only
DisabledByBusyOnly(i) == busy

\* const disabled = busy || isItemBusy(it.id)
QtyDisabled(i) == busy \/ i \in busyIds

\* setItemBusy(id, on)
setItemBusy(ids, id, on) == IF on THEN ids \cup {id} ELSE ids \ {id}

\* useEffect(() => { load(); }, [load])
CartInit ==
  /\ cart = NullCart
  /\ code = <<>>
  /\ err = NoErr
  /\ busy = FALSE
  /\ busyIds = {}
  /\ ops = {NewOp("mount", 0, 0, <<>>, NullCart, "get")}
  /\ \E mq \in MaxQtyPolicies :
       srv = [lines |-> InitLines, coupon |-> <<>>, version |-> 1, max_qty |-> mq]
  /\ lastLand = [kind |-> "none", ok |-> FALSE, asof |-> 0]
  /\ held = [i \in ItemIds |-> {InitLines[i]}]
  /\ hist = [n |-> 0, kinds |-> {}, okKinds |-> {}, race |-> FALSE,
             loadFailed |-> FALSE]

\* the cart view not mounted
CartIdle ==
  /\ cart = NullCart
  /\ code = <<>>
  /\ err = NoErr
  /\ busy = FALSE
  /\ busyIds = {}
  /\ ops = {}
  /\ srv = [lines |-> InitLines, coupon |-> <<>>, version |-> 1, max_qty |-> 0]
  /\ lastLand = [kind |-> "none", ok |-> FALSE, asof |-> 0]
  /\ held = [i \in ItemIds |-> {InitLines[i]}]
  /\ hist = [n |-> 0, kinds |-> {}, okKinds |-> {}, race |-> FALSE,
             loadFailed |-> FALSE]

\* changeQty(itemId, nextQty) up to its first await
changeQty(itemId, nextQty) ==
  LET q == ClampQty(nextQty, maxQty(cart))
      prev == cart
      next == [cart EXCEPT !.items = MapQty(cart.items, itemId, q)]
  IN /\ cart' = next
     /\ busyIds' = setItemBusy(busyIds, itemId, TRUE)
     /\ err' = NoErr
     /\ ops' = ops \cup {NewOp("qty", itemId, q, <<>>, prev, "call")}
     /\ hist' = Started("qty")
     /\ UNCHANGED <<code, busy, srv, lastLand, held>>
     /\ UNCHANGED NotCart

\* the "-" button
ClickDec(i) ==
  /\ CanStart
  /\ HasItem(cart, i)
  /\ ~QtyDisabled(i)
  /\ changeQty(i, QtyOf(cart, i) - 1)

\* the "+" button
ClickInc(i) ==
  /\ CanStart
  /\ HasItem(cart, i)
  /\ ~(QtyDisabled(i) \/ (maxQty(cart) # 0 /\ QtyOf(cart, i) >= maxQty(cart)))
  /\ changeQty(i, QtyOf(cart, i) + 1)

\* a removeItem that takes the line out of the snapshot before the DELETE
ClickRemoveOptimistic(i) ==
  /\ CanStart
  /\ HasItem(cart, i)
  /\ ~QtyDisabled(i)
  /\ cart' = [cart EXCEPT !.items = SelectSeq(cart.items, LAMBDA it : it.id # i)]
  /\ busyIds' = setItemBusy(busyIds, i, TRUE)
  /\ err' = NoErr
  /\ ops' = ops \cup {NewOp("remove", i, 0, <<>>, NullCart, "call")}
  /\ hist' = Started("remove")
  /\ UNCHANGED <<code, busy, srv, lastLand, held>>
  /\ UNCHANGED NotCart

\* the "Remove" button: removeItem(itemId) up to its await
ClickRemove(i) ==
  /\ CanStart
  /\ HasItem(cart, i)
  /\ ~QtyDisabled(i)
  /\ busyIds' = setItemBusy(busyIds, i, TRUE)
  /\ err' = NoErr
  /\ ops' = ops \cup {NewOp("remove", i, 0, <<>>, NullCart, "call")}
  /\ hist' = Started("remove")
  /\ UNCHANGED <<cart, code, busy, srv, lastLand, held>>
  /\ UNCHANGED NotCart

\* the coupon input's onChange
TypeCode(c) ==
  /\ cart.present
  /\ ~busy
  /\ code # c
  /\ code' = c
  /\ UNCHANGED <<cart, err, busy, busyIds, ops, srv, lastLand, held, hist>>
  /\ UNCHANGED NotCart

\* the "Apply" button / Enter: applyCoupon() up to its await
ClickApply ==
  /\ CanStart
  /\ cart.present
  /\ ~busy
  /\ Trim(code) # <<>>
  /\ busy' = TRUE
  /\ err' = NoErr
  /\ ops' = ops \cup {NewOp("apply", 0, 0, Trim(code), NullCart, "call")}
  /\ hist' = Started("apply")
  /\ UNCHANGED <<cart, code, busyIds, srv, lastLand, held>>
  /\ UNCHANGED NotCart

\* a removeCoupon() that posts a code again
RemoveCouponKeepsCode == <<"S">>

\* the code removeCoupon() posts
RemoveCouponBody == <<>>

\* the "Remove coupon" button: removeCoupon() up to its await
ClickRemoveCoupon ==
  /\ CanStart
  /\ cart.coupon # <<>>
  /\ ~busy
  /\ busy' = TRUE
  /\ err' = NoErr
  /\ ops' = ops \cup {NewOp("uncoupon", 0, 0, RemoveCouponBody, NullCart, "call")}
  /\ hist' = Started("uncoupon")
  /\ UNCHANGED <<cart, code, busyIds, srv, lastLand, held>>
  /\ UNCHANGED NotCart

\* ---- the backend (PATCH / DELETE /cart/items/:id/, POST apply-coupon, GET)
GetErrs == {ENet}

\* the backend applies a mutation and answers 2xx
SrvMutate(r) ==
  /\ r.pc = "call"
  /\ r.kind \in LineKinds => srv.lines[r.item] > 0
  /\ srv' = CASE r.kind = "qty" ->
                   [srv EXCEPT !.lines[r.item] = r.qty, !.version = @ + 1]
              [] r.kind = "remove" ->
                   [srv EXCEPT !.lines[r.item] = 0, !.version = @ + 1]
              [] OTHER ->
                   [srv EXCEPT !.coupon = r.code, !.version = @ + 1]
  /\ held' = IF r.kind = "qty" THEN [held EXCEPT ![r.item] = @ \cup {r.qty}]
             ELSE held
  /\ ops' = (ops \ {r}) \cup {[r EXCEPT !.pc = "resp"]}
  /\ hist' = [hist EXCEPT !.okKinds = @ \cup {r.kind}]
  /\ UNCHANGED <<cart, code, err, busy, busyIds, lastLand>>
  /\ UNCHANGED NotCart

\* the backend answers a GET /cart/ with its cart
SrvGet(r) ==
  /\ r.pc = "get"
  /\ ops' = (ops \ {r}) \cup {[r EXCEPT !.pc = "getresp", !.data = CartOf(srv)]}
  /\ UNCHANGED <<cart, code, err, busy, busyIds, srv, lastLand, held, hist>>
  /\ UNCHANGED NotCart

\* ---- the view's continuations
\* a catch block without setCart(prev)
NoRollback(cur, prev) == cur

\* setCart(prev) of changeQty's catch block
RollbackCart(cur, prev) == prev

\* a load() that merges: a coupon of the old snapshot survives a response
\* without one
MergeLanded(cur, data) ==
  [data EXCEPT !.coupon = IF data.coupon = <<>> THEN cur.coupon ELSE data.coupon]

\* a load() that keeps the snapshot with the higher version token
KeepNewest(cur, data) ==
  IF cur.present /\ cur.version > data.version THEN cur ELSE data

\* setCart(r.data) of load()
LandedCart(cur, data) == data

\* a finally block that leaves the coupon flag as it is
BusyStaysSet(r) == busy

\* a finally block that leaves the item flags as they are
BusyIdsStaySet(r) == busyIds

\* the finally blocks
FinallyBusyIds(r) ==
  IF r.kind \in LineKinds THEN setItemBusy(busyIds, r.item, FALSE) ELSE busyIds
FinallyBusy(r) == IF r.kind \in CouponKinds THEN FALSE ELSE busy

\* the await of the mutation resolves: setCode("") for applyCoupon, then load()
\* up to its await
MutationOk(r) ==
  /\ r.pc = "resp"
  /\ code' = IF r.kind = "apply" THEN <<>> ELSE code
  /\ err' = NoErr
  /\ ops' = (ops \ {r}) \cup {[r EXCEPT !.pc = "get"]}
  /\ UNCHANGED <<cart, busy, busyIds, srv, lastLand, held, hist>>
  /\ UNCHANGED NotCart

\* the await of the mutation rejects with e (the backend refused, or the
\* request never got through): the catch and finally blocks
MutationFailed(r, e) ==
  /\ r.pc = "call"
  /\ cart' = IF r.kind = "qty" THEN RollbackCart(cart, r.prev) ELSE cart
  /\ err' = CASE r.kind = "qty" -> prettifyQtyError(e)
              [] r.kind = "remove" -> Or3(e.detail, <<>>, MsgRemoveFallback)
              [] r.kind = "apply" -> applyCouponMsg(e)
              [] OTHER -> Or3(e.detail, <<>>, MsgUncouponFallback)
  /\ busyIds' = FinallyBusyIds(r)
  /\ busy' = FinallyBusy(r)
  /\ ops' = ops \ {r}
  /\ UNCHANGED <<code, srv, lastLand, held, hist>>
  /\ UNCHANGED NotCart

\* the GET of load() resolves, then the caller's finally block
LoadLands(r) ==
  /\ r.pc = "getresp"
  /\ cart' = LandedCart(cart, r.data)
  /\ busyIds' = FinallyBusyIds(r)
  /\ busy' = FinallyBusy(r)
  /\ lastLand' = [kind |-> r.kind, ok |-> TRUE, asof |-> r.data.version]
  /\ ops' = ops \ {r}
  /\ UNCHANGED <<code, err, srv, held, hist>>
  /\ UNCHANGED NotCart

\* the GET of load() rejects with e, then the caller's finally block
LoadFails(r, e) ==
  /\ r.pc = "get"
  /\ cart' = EmptyCart
  /\ err' = Or3(e.detail, <<>>, MsgLoadFallback)
  /\ busyIds' = FinallyBusyIds(r)
  /\ busy' = FinallyBusy(r)
  /\ lastLand' = [kind |-> r.kind, ok |-> FALSE, asof |-> 0]
  /\ ops' = ops \ {r}
  /\ hist' = [hist EXCEPT !.loadFailed = TRUE]
  /\ UNCHANGED <<code, srv, held>>
  /\ UNCHANGED NotCart

CartNext ==
  \/ \E i \in ItemIds : ClickDec(i)
  \/ \E i \in ItemIds : ClickInc(i)
  \/ \E i \in ItemIds : ClickRemove(i)
  \/ \E c \in CodeInputs : TypeCode(c)
  \/ ClickApply
  \/ ClickRemoveCoupon
  \/ \E r \in ops : SrvMutate(r)
  \/ \E r \in ops : SrvGet(r)
  \/ \E r \in ops : MutationOk(r)
  \/ \E r \in ops : \E e \in CartErrs : MutationFailed(r, e)
  \/ \E r \in ops : LoadLands(r)
  \/ \E r \in ops : \E e \in GetErrs : LoadFails(r, e)

\* ============================================= the quantity sent (changeQty)
MaxQtyInput == 5
ReqQtys == (0 - MaxQtyInput)..(MaxQtyInput + 1)

ClampIdle ==
  /\ reqCart = NullCart
  /\ reqQty = 0
  /\ patchQty = 0
  /\ shownQty = 0

ClampInit ==
  /\ \E q0 \in 1..MaxQtyInput, mq \in 0..MaxQtyInput :
       reqCart = CartOf([lines |-> [i \in ItemIds |-> IF i = 1 THEN q0 ELSE 0],
                         coupon |-> <<>>, version |-> 1, max_qty |-> mq])
  /\ reqQty \in ReqQtys
  /\ patchQty = 0
  /\ shownQty = 0

\* changeQty(1, reqQty) up to its await: the optimistic write and the PATCH body
ClampCall ==
  LET q == ClampQty(reqQty, maxQty(reqCart))
      next == [reqCart EXCEPT !.items = MapQty(reqCart.items, 1, q)]
  IN /\ patchQty = 0
     /\ patchQty' = q
     /\ shownQty' = QtyOf(next, 1)
     /\ UNCHANGED <<reqCart, reqQty>>
     /\ UNCHANGED NotClamp

\* ======================================== the message of a failed server call
TextAlphabet == {"Available:", "AVAILABLE:", " ", "0", "3", "7", "x"}
Texts == UNION {[1..n -> TextAlphabet] : n \in 0..MaxTextLen}
MessageTexts == {<<>>, <<"x">>, <<"Available:", "7">>}
Statuses == {0, 400, 409, 429, 500}

ErrIdle ==
  /\ errE = NoError
  /\ errFlow = "none"
  /\ errMsg = <<>>

ErrInit ==
  /\ errE \in [status : Statuses, detail : Texts, message : MessageTexts]
  /\ errFlow = "none"
  /\ errMsg = <<>>

\* changeQty's catch: setErr(prettifyQtyError(e))
QtyCatch ==
  /\ errFlow = "none"
  /\ errFlow' = "qty"
  /\ errMsg' = prettifyQtyError(errE)
  /\ UNCHANGED errE
  /\ UNCHANGED NotErr

\* placeOrder's catch: setErr(prettifyError(e2))
CheckoutCatch ==
  /\ errFlow = "none"
  /\ errFlow' = "checkout"
  /\ errMsg' = prettifyError(errE)
  /\ UNCHANGED errE
  /\ UNCHANGED NotErr

\* applyCoupon's catch: setErr(msg)
CouponCatch ==
  /\ errFlow = "none"
  /\ errFlow' = "coupon"
  /\ errMsg' = applyCouponMsg(errE)
  /\ UNCHANGED errE
  /\ UNCHANGED NotErr

\* =========================================================== the orders view
MsgSessionExpired == <<"Session expired. Showing demo orders.">>
MsgOrdersFailed == <<"Could not load orders.">>
DemoEmail == <<"buyer@example.com">>
Tokens == {<<>>, <<"jwt">>}
SavedEmails == {<<>>, <<" ">>, <<"u">>, <<" ", "u", " ">>}
OrderLists == {<<>>, <<7>>}
OrderStatuses == {0, 401, 500}
NoOrders == [shown |-> FALSE, list |-> <<>>]

\* a fallback that always asks for the demo address
alwaysDemoEmail(saved) == DemoEmail

\* (currentUser.email || "").trim() || "buyer@example.com"
demoEmail(saved) == IF Trim(saved) # <<>> THEN Trim(saved) ELSE DemoEmail

\* the request interceptor of api: the bearer a request leaves with
Bearer(isPublic, tok) == IF ~isPublic THEN tok ELSE <<>>

\* api.get("/orders/me/")
GetMine == [path |-> "/orders/me/", email |-> <<>>, bearer |-> Bearer(FALSE, token)]

\* api.get("/orders/", { params: { email: demoEmail, _public: 1 } })
GetPublic ==
  [path |-> "/orders/", email |-> demoEmail(userEmail),
   bearer |-> Bearer(TRUE, token)]

\* load() up to its first await
NewLoad(id) ==
  [id |-> id, phase |-> "first", pc |-> "sent",
   req |-> IF isAuthed THEN GetMine ELSE GetPublic, status |-> 0, data |-> <<>>]

\* the view not mounted
OrdIdle ==
  /\ token = <<>>
  /\ userEmail = <<>>
  /\ isAuthed = FALSE
  /\ loadedRef = FALSE
  /\ orders = NoOrders
  /\ ordErr = <<>>
  /\ loads = {}
  /\ nLoads = 0

\* the mount: useEffect(() => { load(); }, [isAuthed]), which React.StrictMode
\* runs twice in a development build
OrdInit ==
  /\ token \in Tokens
  /\ userEmail \in SavedEmails
  /\ isAuthed = (token # <<>>)
  /\ loadedRef = FALSE
  /\ orders = NoOrders
  /\ ordErr = <<>>
  /\ nLoads \in 1..2
  /\ loads = {NewLoad(k) : k \in 1..nLoads}

\* the "Retry" button: load() up to its first await
ClickRetry ==
  /\ nLoads < MaxLoads
  /\ orders.shown
  /\ ordErr # <<>>
  /\ ordErr' = <<>>
  /\ loads' = loads \cup {NewLoad(nLoads + 1)}
  /\ nLoads' = nLoads + 1
  /\ UNCHANGED <<token, userEmail, isAuthed, loadedRef, orders>>
  /\ UNCHANGED NotOrd

\* the backend answers 2xx with a list; /orders/me/ needs a bearer
OrdersAnswerOk(r, data) ==
  /\ r.pc = "sent"
  /\ r.req.path = "/orders/me/" => r.req.bearer # <<>>
  /\ loads' = (loads \ {r}) \cup {[r EXCEPT !.pc = "answered", !.status = 200,
                                            !.data = data]}
  /\ UNCHANGED <<token, userEmail, isAuthed, loadedRef, orders, ordErr, nLoads>>
  /\ UNCHANGED NotOrd

\* the request fails: no response (0) or an error status
OrdersAnswerError(r, st) ==
  /\ r.pc = "sent"
  /\ loads' = (loads \ {r}) \cup {[r EXCEPT !.pc = "answered", !.status = st]}
  /\ UNCHANGED <<token, userEmail, isAuthed, loadedRef, orders, ordErr, nLoads>>
  /\ UNCHANGED NotOrd

\* the first await resolves: setOrders(res.data || []), finally
LoadResolves(r) ==
  /\ r.pc = "answered" /\ r.phase = "first" /\ r.status = 200
  /\ orders' = [shown |-> TRUE, list |-> r.data]
  /\ loadedRef' = TRUE
  /\ loads' = loads \ {r}
  /\ UNCHANGED <<token, userEmail, isAuthed, ordErr, nLoads>>
  /\ UNCHANGED NotOrd

\* the catch block's test: isAuthed && status === 401 && !loadedRef.current
FallsBack(r) == isAuthed /\ r.status = 401 /\ ~loadedRef

\* the first await rejects and the catch block sends the public request
LoadFallsBack(r) ==
  /\ r.pc = "answered" /\ r.phase = "first" /\ r.status # 200
  /\ FallsBack(r)
  /\ loads' = (loads \ {r}) \cup
                {[r EXCEPT !.phase = "fallback", !.pc = "sent", !.req = GetPublic,
                           !.status = 0]}
  /\ UNCHANGED <<token, userEmail, isAuthed, loadedRef, orders, ordErr, nLoads>>
  /\ UNCHANGED NotOrd

\* the first await rejects otherwise: setOrders([]), setErr, finally
LoadRejects(r) ==
  /\ r.pc = "answered" /\ r.phase = "first" /\ r.status # 200
  /\ ~FallsBack(r)
  /\ orders' = [shown |-> TRUE, list |-> <<>>]
  /\ ordErr' = MsgOrdersFailed
  /\ loadedRef' = TRUE
  /\ loads' = loads \ {r}
  /\ UNCHANGED <<token, userEmail, isAuthed, nLoads>>
  /\ UNCHANGED NotOrd

\* the public request of the catch block resolves
FallbackResolves(r) ==
  /\ r.pc = "answered" /\ r.phase = "fallback" /\ r.status = 200
  /\ orders' = [shown |-> TRUE, list |-> r.data]
  /\ ordErr' = MsgSessionExpired
  /\ loadedRef' = TRUE
  /\ loads' = loads \ {r}
  /\ UNCHANGED <<token, userEmail, isAuthed, nLoads>>
  /\ UNCHANGED NotOrd

\* the public request of the catch block rejects
FallbackRejects(r) ==
  /\ r.pc = "answered" /\ r.phase = "fallback" /\ r.status # 200
  /\ orders' = [shown |-> TRUE, list |-> <<>>]
  /\ ordErr' = MsgOrdersFailed
  /\ loadedRef' = TRUE
  /\ loads' = loads \ {r}
  /\ UNCHANGED <<token, userEmail, isAuthed, nLoads>>
  /\ UNCHANGED NotOrd

OrdNext ==
  \/ ClickRetry
  \/ \E r \in loads : \E data \in OrderLists : OrdersAnswerOk(r, data)
  \/ \E r \in loads : \E st \in OrderStatuses : OrdersAnswerError(r, st)
  \/ \E r \in loads : LoadResolves(r)
  \/ \E r \in loads : LoadFallsBack(r)
  \/ \E r \in loads : LoadRejects(r)
  \/ \E r \in loads : FallbackResolves(r)
  \/ \E r \in loads : FallbackRejects(r)

\* ========================================== the auth store and the API client
\* values of params._public: absent, 1, "1", true, 0, "true", false
PublicMarks == {"absent", "num1", "str1", "true", "num0", "strtrue", "false"}

\* String(_public) === "1" || _public === 1 || _public === true
isPublic(mark) == mark \in {"str1", "num1", "true"}

\* headers.Authorization a caller has put on the request, <<>> when none
PresetHeaders == {<<>>, <<"Bearer ", "old">>, <<"Basic ", "x">>}

\* the argument of auth.set: access and refresh, <<>> when missing (a null
\* argument has both missing)
TokenPairs ==
  [access : {<<>>, <<"a">>, <<"b">>}, refresh : {<<>>, <<"r">>}]

\* an interceptor that leaves the header of a public request alone
interceptKeeps(mark, hdr, tok) ==
  IF ~isPublic(mark) /\ tok # <<>> THEN <<"Bearer ">> \o tok ELSE hdr

\* the request interceptor: the Authorization header the request leaves with
intercept(mark, hdr, tok) ==
  IF ~isPublic(mark)
  THEN IF tok # <<>> THEN <<"Bearer ">> \o tok ELSE hdr
  ELSE <<>>

\* auth.access(): localStorage.getItem(TOKEN_KEY) || null
access == stored

\* an auth.set that stores whatever tokens.access is
authSetAlways(st, tokens) == tokens.access

\* auth.set(tokens): the stored token afterwards
authSet(st, tokens) == IF tokens.access # <<>> THEN tokens.access ELSE st

\* a logout that leaves the token where it is
authKeeps(st) == st

\* auth.clear(): the stored token afterwards
authClear(st) == <<>>

NotSent == [done |-> FALSE, mark |-> "absent", preset |-> <<>>, token |-> <<>>,
            header |-> <<>>, at |-> 0]

AuthIdle ==
  /\ stored = <<>>
  /\ authLog = <<>>
  /\ sent = NotSent

\* a browser whose localStorage has no token yet
AuthInit ==
  /\ stored = <<>>
  /\ authLog = <<>>
  /\ sent = NotSent

\* Login.submit: auth.set(r.data)
AuthSet(tokens) ==
  /\ Len(authLog) < MaxAuthOps
  /\ stored' = authSet(stored, tokens)
  /\ authLog' = Append(authLog, [op |-> "set", tokens |-> tokens])
  /\ UNCHANGED sent
  /\ UNCHANGED NotAuth

\* RootLayout.logout: auth.clear()
AuthClear ==
  /\ Len(authLog) < MaxAuthOps
  /\ stored' = authClear(stored)
  /\ authLog' = Append(authLog, [op |-> "clear",
                                 tokens |-> [access |-> <<>>, refresh |-> <<>>]])
  /\ UNCHANGED sent
  /\ UNCHANGED NotAuth

\* a request passes the interceptor
ApiSend(mark, hdr) ==
  /\ sent' = [done |-> TRUE, mark |-> mark, preset |-> hdr, token |-> access,
              header |-> intercept(mark, hdr, access), at |-> Len(authLog)]
  /\ sent' # sent
  /\ UNCHANGED <<stored, authLog>>
  /\ UNCHANGED NotAuth

AuthNext ==
  \/ \E t \in TokenPairs : AuthSet(t)
  \/ AuthClear
  \/ \E mark \in PublicMarks : \E hdr \in PresetHeaders : ApiSend(mark, hdr)

\* ======================================================== the checkout view
NoTotals == [known |-> FALSE, subtotal |-> 0, nitems |-> 0]

\* bodies of GET /cart/ as the checkout view uses them
CheckoutCarts ==
  {[known |-> TRUE, subtotal |-> 0, nitems |-> 0],
   [known |-> TRUE, subtotal |-> 50, nitems |-> 1],
   [known |-> TRUE, subtotal |-> 80, nitems |-> 2]}

\* bodies of POST /shipping/quote/: the ids of the quotes
QuoteLists == {<<>>, <<1, 2>>, <<3, 2>>}

SubmitErrs == {ENet, E429, E409}

ViewIdle ==
  /\ route = "none"
  /\ cartTotals = NoTotals
  /\ coLoads = {}
  /\ quotes = <<>>
  /\ shippingId = 0
  /\ qreqs = {}
  /\ nQuotes = 0
  /\ formOk = FALSE
  /\ loading = FALSE
  /\ order = 0
  /\ formErr = <<>>
  /\ subs = {}
  /\ nSubs = 0
  /\ trig = "none"
  /\ lastQuote = "none"

\* the mount of CheckoutPage: the form comes filled in, the cart GET is sent
\* (twice under React.StrictMode in a development build)
CheckoutInit ==
  /\ route = "checkout"
  /\ cartTotals = NoTotals
  /\ \E n \in 1..2 : coLoads = 1..n
  /\ quotes = <<>>
  /\ shippingId = 0
  /\ qreqs = {}
  /\ nQuotes = 0
  /\ formOk = TRUE
  /\ loading = FALSE
  /\ order = 0
  /\ formErr = <<>>
  /\ subs = {}
  /\ nSubs = 0
  /\ trig = "none"
  /\ lastQuote = "none"

\* cartTotals?.subtotal, 0 when absent
subtotalOf(ct) == ct.subtotal

\* a quote request that carries more of the cart
QuoteBodyCart(ct) == [subtotal |-> ct.subtotal, nitems |-> ct.nitems]

\* the body of the quote request: { subtotal: cartTotals.subtotal }
QuoteBody(ct) == [subtotal |-> ct.subtotal]

\* useEffect(() => { loadQuotes(); }, [loadQuotes]) after a render in which
\* cartTotals?.subtotal or shippingId changed: loadQuotes up to its await
QuoteEffect(ct, sid) ==
  IF (subtotalOf(ct) # subtotalOf(cartTotals) \/ sid # shippingId)
     /\ subtotalOf(ct) # 0
  THEN {[id |-> nQuotes + 1, cap |-> sid, body |-> QuoteBody(ct)]}
  ELSE {}

\* the rest of a step that leaves cartTotals = ct and shippingId = sid
Rerender(ct, sid, reqs) ==
  /\ QuoteEffect(ct, sid) # {} => nQuotes < MaxQuotes
  /\ cartTotals' = ct
  /\ shippingId' = sid
  /\ qreqs' = reqs \cup QuoteEffect(ct, sid)
  /\ nQuotes' = nQuotes + Cardinality(QuoteEffect(ct, sid))

\* the cart GET resolves: setCartTotals(r.data)
CheckoutCartLands(k, data) ==
  /\ k \in coLoads
  /\ coLoads' = coLoads \ {k}
  /\ Rerender(data, shippingId, qreqs)
  /\ UNCHANGED <<route, quotes, formOk, loading, order, formErr, subs, nSubs, trig, lastQuote>>
  /\ UNCHANGED NotView

\* the cart GET rejects: setCartTotals(null)
CheckoutCartFails(k) ==
  /\ k \in coLoads
  /\ coLoads' = coLoads \ {k}
  /\ Rerender(NoTotals, shippingId, qreqs)
  /\ UNCHANGED <<route, quotes, formOk, loading, order, formErr, subs, nSubs, trig, lastQuote>>
  /\ UNCHANGED NotView

InList(list, id) == \E k \in 1..Len(list) : list[k] = id

\* a selection that follows the shipping id of the current render
SelectCurrent(list, cap, cur) ==
  IF InList(list, cur) THEN cur ELSE IF list # <<>> THEN list[1] ELSE 0

\* a selection that alternates between the ends of the list
SelectOther(list, cap, cur) ==
  IF list = <<>> THEN 0 ELSE IF cur = list[1] THEN list[Len(list)] ELSE list[1]

\* the shipping id loadQuotes leaves: cap is the shippingId of the render that
\* made the callback, cur the one of the current state
SelectAfter(list, cap, cur) ==
  LET inUpdater == IF ~InList(list, cap)
                   THEN (IF list # <<>> THEN list[1] ELSE 0)
                   ELSE cur
  IN IF cap = 0 /\ list # <<>> THEN list[1] ELSE inUpdater

\* loadQuotes after its await: setQuotes(prev => ...), setShippingId
QuoteLands(q, list) ==
  /\ q \in qreqs
  /\ quotes' = list
  /\ Rerender(cartTotals, SelectAfter(list, q.cap, shippingId), qreqs \ {q})
  /\ lastQuote' = "ok"
  /\ UNCHANGED <<route, coLoads, formOk, loading, order, formErr, subs, nSubs, trig>>
  /\ UNCHANGED NotView

\* loadQuotes' catch: setQuotes([])
QuoteFails(q) ==
  /\ q \in qreqs
  /\ quotes' = <<>>
  /\ qreqs' = qreqs \ {q}
  /\ lastQuote' = "failed"
  /\ UNCHANGED <<route, cartTotals, coLoads, shippingId, nQuotes, formOk, loading,
                 order, formErr, subs, nSubs, trig>>
  /\ UNCHANGED NotView

\* a radio of the shipping options: onChange={() => setShippingId(q.id)}
SelectQuote(id) ==
  /\ route = "checkout"
  /\ order = 0
  /\ ~loading
  /\ InList(quotes, id)
  /\ id # shippingId
  /\ Rerender(cartTotals, id, qreqs)
  /\ UNCHANGED <<route, coLoads, quotes, formOk, loading, order, formErr, subs,
                 nSubs, trig, lastQuote>>
  /\ UNCHANGED NotView

\* canSubmit: every required field and (cartTotals?.items?.length || 0) > 0
canSubmit == formOk /\ cartTotals.nitems > 0

\* placeOrder's early return: !canSubmit || loading
placeOrderReturns == ~canSubmit \/ loading

\* the submit event of the checkout form: placeOrder up to its await
PlaceOrder ==
  /\ route = "checkout"
  /\ order = 0
  /\ IF placeOrderReturns
     THEN /\ trig' = "dropped"
          /\ UNCHANGED <<loading, formErr, subs, nSubs>>
     ELSE /\ nSubs < MaxSubmits
          /\ trig' = "sent"
          /\ loading' = TRUE
          /\ formErr' = <<>>
          /\ subs' = subs \cup {[id |-> nSubs + 1, view |-> "checkout",
                                 shipId |-> shippingId, pc |-> "post"]}
          /\ nSubs' = nSubs + 1
  /\ UNCHANGED <<route, cartTotals, coLoads, quotes, shippingId, qreqs, nQuotes,
                 formOk, order, lastQuote>>
  /\ UNCHANGED NotView

\* the user empties or fills a required field (the inputs are disabled while
\* loading)
EditCheckout ==
  /\ route = "checkout"
  /\ order = 0
  /\ ~loading
  /\ formOk' = ~formOk
  /\ UNCHANGED <<route, cartTotals, coLoads, quotes, shippingId, qreqs, nQuotes,
                 loading, order, formErr, subs, nSubs, trig, lastQuote>>
  /\ UNCHANGED NotView

\* placeOrder after its await: setOrder(r.data), finally
OrderPlaced(r) ==
  /\ r \in subs /\ r.view = "checkout"
  /\ order' = r.id
  /\ loading' = FALSE
  /\ subs' = subs \ {r}
  /\ trig' = "ok"
  /\ UNCHANGED <<route, cartTotals, coLoads, quotes, shippingId, qreqs, nQuotes,
                 formOk, formErr, nSubs, lastQuote>>
  /\ UNCHANGED NotView

\* placeOrder's catch: setErr(prettifyError(e2)), finally
OrderRefused(r, e) ==
  /\ r \in subs /\ r.view = "checkout"
  /\ formErr' = prettifyError(e)
  /\ loading' = FALSE
  /\ subs' = subs \ {r}
  /\ trig' = "failed"
  /\ UNCHANGED <<route, cartTotals, coLoads, quotes, shippingId, qreqs, nQuotes,
                 formOk, order, nSubs, lastQuote>>
  /\ UNCHANGED NotView

CheckoutNext ==
  \/ \E k \in 1..2 : \E data \in CheckoutCarts : CheckoutCartLands(k, data)
  \/ \E k \in 1..2 : CheckoutCartFails(k)
  \/ \E q \in qreqs : \E list \in QuoteLists : QuoteLands(q, list)
  \/ \E q \in qreqs : QuoteFails(q)
  \/ \E id \in 1..3 : SelectQuote(id)
  \/ PlaceOrder
  \/ EditCheckout
  \/ \E r \in subs : OrderPlaced(r)
  \/ \E r \in subs : \E e \in SubmitErrs : OrderRefused(r, e)

\* ================================================ the login and admin forms
MsgEnterCredentials == <<"Please enter username and password.">>
MsgInvalidCredentials == <<"Invalid credentials">>
MsgCreateCouponFailed == <<"Failed to create coupon.">>
MsgCreateBannerFailed == <<"Failed to create banner.">>
MsgLoadCouponsFailed == <<"Failed to load coupons.">>
MsgLoadBannersFailed == <<"Failed to load banners.">>

AdminViews == {"coupons", "banners"}

\* a form view after its mount: Login with empty fields, an admin form with
\* its defaults
FormInit(view) ==
  /\ route = view
  /\ cartTotals = NoTotals
  /\ coLoads = {}
  /\ quotes = <<>>
  /\ shippingId = 0
  /\ qreqs = {}
  /\ nQuotes = 0
  /\ formOk = (view \in AdminViews)
  /\ loading = FALSE
  /\ order = 0
  /\ formErr = <<>>
  /\ subs = {}
  /\ nSubs = 0
  /\ trig = "none"
  /\ lastQuote = "none"

\* the backend's rows when the view is mounted
InitialRows == {{}, {[id |-> 1, active |-> TRUE]}}

\* the id the backend gives to a created row
NewRowId == Cardinality(srvRows) + nSubs + 1

AdminListIdle ==
  /\ rows = {}
  /\ srvRows = {}
  /\ adminOps = {}
  /\ nAdminOps = 0
  /\ adminLog = "none"

\* useEffect(() => { load(); }, []): the list GET of the mount is in flight
AdminListInit ==
  /\ rows = {}
  /\ srvRows \in InitialRows
  /\ adminOps = {[id |-> 0, kind |-> "mount", row |-> 0, active |-> FALSE, pc |-> "load"]}
  /\ nAdminOps = 0
  /\ adminLog = "none"

LoginInit == FormInit("login") /\ AdminListIdle
AdminInit == (\E view \in AdminViews : FormInit(view)) /\ AdminListInit

\* a handler without the guard
busyIgnored == FALSE

\* if (busy) return;
busyReturns == loading

\* the request of a form view
FormRequest(view) == [id |-> nSubs + 1, view |-> view, shipId |-> 0, pc |-> "post"]

\* the user fills in or empties the fields of Login (disabled while busy)
EditLogin ==
  /\ route = "login"
  /\ ~loading
  /\ formOk' = ~formOk
  /\ UNCHANGED <<route, cartTotals, coLoads, quotes, shippingId, qreqs, nQuotes,
                 loading, order, formErr, subs, nSubs, trig, lastQuote>>
  /\ UNCHANGED NotView

\* Login.submit up to its await
LoginSubmit ==
  /\ route = "login"
  /\ IF busyReturns
     THEN /\ trig' = "dropped"
          /\ UNCHANGED <<loading, formErr, subs, nSubs>>
     ELSE IF ~formOk
     THEN /\ trig' = "invalid"
          /\ formErr' = MsgEnterCredentials
          /\ UNCHANGED <<loading, subs, nSubs>>
     ELSE /\ nSubs < MaxSubmits
          /\ trig' = "sent"
          /\ formErr' = <<>>
          /\ loading' = TRUE
          /\ subs' = subs \cup {FormRequest("login")}
          /\ nSubs' = nSubs + 1
  /\ UNCHANGED <<route, cartTotals, coLoads, quotes, shippingId, qreqs, nQuotes,
                 formOk, order, lastQuote>>
  /\ UNCHANGED NotView

\* Login.submit after its await: auth.set(r.data), nav(...), finally
LoginOk(r, tokens) ==
  /\ r \in subs /\ r.view = "login"
  /\ stored' = authSet(stored, tokens)
  /\ route' = "none"
  /\ loading' = FALSE
  /\ subs' = subs \ {r}
  /\ trig' = "ok"
  /\ UNCHANGED <<cartTotals, coLoads, quotes, shippingId, qreqs, nQuotes, formOk,
                 order, formErr, nSubs, lastQuote>>
  /\ UNCHANGED <<authLog, sent>>
  /\ UNCHANGED <<cartVars, clampVars, errVars, ordVars, adminVars, searchVars, fetchVars,
                 guardVars, moVars, fltVars, envVars>>

\* Login.submit's catch (a body without non_field_errors), finally
LoginFails(r, e) ==
  /\ r \in subs /\ r.view = "login"
  /\ formErr' = Or3(e.detail, e.message, MsgInvalidCredentials)
  /\ loading' = FALSE
  /\ subs' = subs \ {r}
  /\ trig' = "failed"
  /\ UNCHANGED <<route, cartTotals, coLoads, quotes, shippingId, qreqs, nQuotes,
                 formOk, order, nSubs, lastQuote>>
  /\ UNCHANGED NotView

\* AdminCoupons.create / AdminBanners.create up to the await of the POST
AdminCreate ==
  /\ route \in AdminViews
  /\ IF busyReturns
     THEN /\ trig' = "dropped"
          /\ UNCHANGED <<loading, formErr, subs, nSubs>>
     ELSE /\ nSubs < MaxSubmits
          /\ trig' = "sent"
          /\ loading' = TRUE
          /\ formErr' = <<>>
          /\ subs' = subs \cup {FormRequest(route)}
          /\ nSubs' = nSubs + 1
  /\ UNCHANGED <<route, cartTotals, coLoads, quotes, shippingId, qreqs, nQuotes,
                 formOk, order, lastQuote>>
  /\ UNCHANGED NotView

\* the POST resolves: the form is reset and load() runs up to its await (the
\* rows of the list are not part of this model)
AdminCreated(r) ==
  /\ r \in subs /\ r.view \in AdminViews /\ r.pc = "post"
  /\ formErr' = <<>>
  /\ subs' = (subs \ {r}) \cup {[r EXCEPT !.pc = "load"]}
  /\ srvRows' = srvRows \cup {[id |-> NewRowId, active |-> TRUE]}
  /\ UNCHANGED <<route, cartTotals, coLoads, quotes, shippingId, qreqs, nQuotes,
                 formOk, loading, order, nSubs, trig, lastQuote>>
  /\ UNCHANGED <<rows, adminOps, nAdminOps, adminLog>>
  /\ UNCHANGED NotForm

\* load() ends, with the list or in its catch, then create's finally
AdminReloaded(r, ok) ==
  /\ r \in subs /\ r.view \in AdminViews /\ r.pc = "load"
  /\ formErr' = IF ok THEN formErr
                ELSE IF r.view = "coupons" THEN MsgLoadCouponsFailed
                ELSE MsgLoadBannersFailed
  /\ rows' = IF ok THEN srvRows ELSE {}
  /\ loading' = FALSE
  /\ subs' = subs \ {r}
  /\ trig' = "ok"
  /\ UNCHANGED <<route, cartTotals, coLoads, quotes, shippingId, qreqs, nQuotes,
                 formOk, order, nSubs, lastQuote>>
  /\ UNCHANGED <<srvRows, adminOps, nAdminOps, adminLog>>
  /\ UNCHANGED NotForm

\* the POST rejects: create's catch and finally
AdminCreateFails(r, e) ==
  /\ r \in subs /\ r.view \in AdminViews /\ r.pc = "post"
  /\ formErr' = IF r.view = "coupons" THEN Or3(e.detail, <<>>, MsgCreateCouponFailed)
                ELSE MsgCreateBannerFailed
  /\ loading' = FALSE
  /\ subs' = subs \ {r}
  /\ trig' = "failed"
  /\ UNCHANGED <<route, cartTotals, coLoads, quotes, shippingId, qreqs, nQuotes,
                 formOk, order, nSubs, lastQuote>>
  /\ UNCHANGED NotView

FormNext ==
  \/ EditLogin
  \/ LoginSubmit
  \/ \E r \in subs : \E tokens \in TokenPairs : LoginOk(r, tokens)
  \/ \E r \in subs : \E e \in SubmitErrs : LoginFails(r, e)
  \/ AdminCreate
  \/ \E r \in subs : AdminCreated(r)
  \/ \E r \in subs : \E ok \in BOOLEAN : AdminReloaded(r, ok)
  \/ \E r \in subs : \E e \in SubmitErrs : AdminCreateFails(r, e)

\* ========================================================= the admin lists
\* the view's fields that an admin list call leaves alone
FormRest == <<route, cartTotals, coLoads, quotes, shippingId, qreqs, nQuotes,
              formOk, loading, order, subs, nSubs, trig, lastQuote>>

MsgLoadFailed == IF route = "coupons" THEN MsgLoadCouponsFailed ELSE MsgLoadBannersFailed

\* a handler that does not reload after its mutation
NoRefetch(op) == {}

\* await load() after the mutation: the list GET is sent
AfterMutation(op) == {[op EXCEPT !.pc = "load"]}

\* toggle(row) / toggleActive(row) up to its await: PATCH { is_active: !row.is_active }
AdminToggle(row) ==
  /\ route \in AdminViews
  /\ row \in rows
  /\ nAdminOps < MaxAdminOps
  /\ adminOps' = adminOps \cup {[id |-> nAdminOps + 1, kind |-> "toggle",
                                 row |-> row.id, active |-> ~row.active, pc |-> "call"]}
  /\ nAdminOps' = nAdminOps + 1
  /\ UNCHANGED <<rows, srvRows, adminLog>>
  /\ UNCHANGED <<FormRest, formErr>>
  /\ UNCHANGED NotForm

\* remove(row) up to its await: confirm(...), then the DELETE
AdminRemove(row, answer) ==
  /\ route \in AdminViews
  /\ row \in rows
  /\ nAdminOps < MaxAdminOps
  /\ nAdminOps' = nAdminOps + 1
  /\ IF ~answer
     THEN /\ adminLog' = "declined"
          /\ UNCHANGED adminOps
     ELSE /\ adminLog' = "accepted"
          /\ adminOps' = adminOps \cup {[id |-> nAdminOps + 1, kind |-> "delete",
                                         row |-> row.id, active |-> FALSE, pc |-> "call"]}
  /\ UNCHANGED <<rows, srvRows>>
  /\ UNCHANGED <<FormRest, formErr>>
  /\ UNCHANGED NotForm

\* the backend's rows after the PATCH or DELETE of op
RowsAfter(op) ==
  IF op.kind = "delete" THEN {x \in srvRows : x.id # op.row}
  ELSE {IF x.id = op.row THEN [x EXCEPT !.active = op.active] ELSE x : x \in srvRows}

\* the PATCH or DELETE resolves, then load() up to its await (setErr(""))
RowMutationOk(op) ==
  /\ op \in adminOps /\ op.pc = "call"
  /\ \E x \in srvRows : x.id = op.row
  /\ srvRows' = RowsAfter(op)
  /\ adminOps' = (adminOps \ {op}) \cup AfterMutation(op)
  /\ formErr' = <<>>
  /\ adminLog' = "applied"
  /\ UNCHANGED <<rows, nAdminOps>>
  /\ UNCHANGED FormRest
  /\ UNCHANGED NotForm

\* the PATCH or DELETE rejects: alert(...)
RowMutationFails(op) ==
  /\ op \in adminOps /\ op.pc = "call"
  /\ adminOps' = adminOps \ {op}
  /\ adminLog' = "refused"
  /\ UNCHANGED <<rows, srvRows, nAdminOps>>
  /\ UNCHANGED <<FormRest, formErr>>
  /\ UNCHANGED NotForm

\* load() after its await: setRows(r.data || [])
ListLands(op) ==
  /\ op \in adminOps /\ op.pc = "load"
  /\ rows' = srvRows
  /\ adminOps' = adminOps \ {op}
  /\ UNCHANGED <<srvRows, nAdminOps, adminLog>>
  /\ UNCHANGED <<FormRest, formErr>>
  /\ UNCHANGED NotForm

\* load()'s catch: setErr("Failed to load ..."), setRows([])
ListFails(op) ==
  /\ op \in adminOps /\ op.pc = "load"
  /\ rows' = {}
  /\ formErr' = MsgLoadFailed
  /\ adminOps' = adminOps \ {op}
  /\ UNCHANGED <<srvRows, nAdminOps, adminLog>>
  /\ UNCHANGED FormRest
  /\ UNCHANGED NotForm

AdminListNext ==
  \/ \E row \in rows : AdminToggle(row)
  \/ \E row \in rows : \E answer \in BOOLEAN : AdminRemove(row, answer)
  \/ \E op \in adminOps : RowMutationOk(op)
  \/ \E op \in adminOps : RowMutationFails(op)
  \/ \E op \in adminOps : ListLands(op)
  \/ \E op \in adminOps : ListFails(op)

\* =========================================================== the search bar
Terms == {<<>>, <<"a">>, <<"a", "b">>, <<"a", "b", "c">>}

\* the bodies of GET /search/suggest for a term: r?.data?.suggestions || []
SuggestLists(term) == {<<>>, <<term>>}

SearchIdle ==
  /\ query = <<>>
  /\ suggestions = <<>>
  /\ sLoading = FALSE
  /\ timers = {}
  /\ debounceRef = 0
  /\ sreqs = {}
  /\ abortRef = 0
  /\ nKeys = 0
  /\ lastTerm = <<>>

\* SearchBar after its mount: the same values, the input is there to be used
SearchInit == SearchIdle

\* a debounce that never clears the timer set before
KeepTimers(ts, ref) == ts

\* if (debounceRef.current) clearTimeout(debounceRef.current)
ClearTimer(ts, ref) == {t \in ts : t.id # ref}

\* debouncedFetch(term)
debouncedFetch(term) ==
  /\ nKeys < MaxKeys
  /\ timers' = ClearTimer(timers, debounceRef) \cup {[id |-> nKeys + 1, term |-> term]}
  /\ debounceRef' = nKeys + 1
  /\ nKeys' = nKeys + 1
  /\ lastTerm' = term

\* the input's onChange
TypeTerm(v) ==
  /\ v # query
  /\ query' = v
  /\ debouncedFetch(v)
  /\ UNCHANGED <<suggestions, sLoading, sreqs, abortRef>>
  /\ UNCHANGED NotSearch

\* the input's onFocus
FocusInput ==
  /\ query # <<>>
  /\ debouncedFetch(query)
  /\ UNCHANGED <<query, suggestions, sLoading, sreqs, abortRef>>
  /\ UNCHANGED NotSearch

\* clear(): the input and the list are emptied; timers and requests are left
ClearInput ==
  /\ query # <<>>
  /\ query' = <<>>
  /\ suggestions' = <<>>
  /\ UNCHANGED <<sLoading, timers, debounceRef, sreqs, abortRef, nKeys, lastTerm>>
  /\ UNCHANGED NotSearch

\* a fetchSuggest that aborts nothing
AbortNothing(reqs, ref) == reqs

\* if (abortRef.current) abortRef.current.abort()
AbortCurrent(reqs, ref) ==
  {IF r.id = ref THEN [r EXCEPT !.aborted = TRUE] ELSE r : r \in reqs}

\* a debounce timer fires: fetchSuggest(term) up to its await
TimerFires(t) ==
  /\ t \in timers
  /\ timers' = timers \ {t}
  /\ IF Len(t.term) < 2
     THEN /\ sreqs' = AbortCurrent(sreqs, abortRef)
          /\ abortRef' = 0
          /\ suggestions' = <<>>
          /\ sLoading' = FALSE
     ELSE /\ sreqs' = AbortCurrent(sreqs, abortRef) \cup
                        {[id |-> t.id, term |-> t.term, aborted |-> FALSE]}
          /\ abortRef' = t.id
          /\ sLoading' = TRUE
          /\ UNCHANGED suggestions
  /\ UNCHANGED <<query, debounceRef, nKeys, lastTerm>>
  /\ UNCHANGED NotSearch

\* the GET resolves (a request that was aborted never does):
\* setSuggestions(...), finally
SuggestLands(r, list) ==
  /\ r \in sreqs
  /\ ~r.aborted
  /\ suggestions' = list
  /\ sLoading' = FALSE
  /\ sreqs' = sreqs \ {r}
  /\ UNCHANGED <<query, timers, debounceRef, abortRef, nKeys, lastTerm>>
  /\ UNCHANGED NotSearch

\* the GET rejects, by an error or by its abort: catch, finally
SuggestFails(r) ==
  /\ r \in sreqs
  /\ suggestions' = IF ~r.aborted THEN <<>> ELSE suggestions
  /\ sLoading' = IF ~r.aborted THEN FALSE ELSE sLoading
  /\ sreqs' = sreqs \ {r}
  /\ UNCHANGED <<query, timers, debounceRef, abortRef, nKeys, lastTerm>>
  /\ UNCHANGED NotSearch

SearchNext ==
  \/ \E v \in Terms : TypeTerm(v)
  \/ FocusInput
  \/ ClearInput
  \/ \E t \in timers : TimerFires(t)
  \/ \E r \in sreqs : \E list \in SuggestLists(r.term) : SuggestLands(r, list)
  \/ \E r \in sreqs : SuggestFails(r)

\* ===================== the fetching components (belt, featured, brands, rail)
FetchKinds == {"belt", "featured", "brands", "rail"}

\* the lists a catalog endpoint answers with, already normalised
CatalogLists == {<<>>, <<1>>}

MsgCouldNotLoad == <<"Could not load.">>

\* useState(null) of the belt, the featured categories and the brand strip;
\* useState([]) of the rail
NotLoaded == [loaded |-> FALSE, list |-> <<>>]
Loaded(list) == [loaded |-> TRUE, list |-> list]

FetchIdle ==
  /\ fKind = "none"
  /\ fAlive = FALSE
  /\ fKey = 0
  /\ fData = NotLoaded
  /\ fLoading = FALSE
  /\ fErr = <<>>
  /\ freqs = {}
  /\ fAborted = {}
  /\ nFetch = 0

\* the request an effect run sends with its controller c
FirstRequest(kind, c, key) ==
  [ctrl |-> c, key |-> key, stage |-> IF kind = "belt" THEN "nav" ELSE "all"]

\* the component after its mount; under React.StrictMode the effect has run,
\* been cleaned up (its controller aborted) and run again
FetchInit ==
  /\ fKind \in FetchKinds
  /\ fAlive = TRUE
  /\ fKey = 1
  /\ fData = IF fKind = "rail" THEN Loaded(<<>>) ELSE NotLoaded
  /\ fLoading = (fKind = "rail")
  /\ fErr = <<>>
  /\ nFetch \in 1..2
  /\ freqs = {FirstRequest(fKind, c, 1) : c \in 1..nFetch}
  /\ fAborted = 1..(nFetch - 1)

\* a catch block that never looks at the signal
neverAborted(c) == FALSE

\* ctrl.signal.aborted
isAborted(c) == c \in fAborted

\* the effect's cleanup when the component is torn down: ctrl.abort()
Teardown ==
  /\ fAlive
  /\ fAlive' = FALSE
  /\ fAborted' = fAborted \cup {nFetch}
  /\ UNCHANGED <<fKind, fKey, fData, fLoading, fErr, freqs, nFetch>>
  /\ UNCHANGED NotFetch

\* the rail's source or params change: cleanup, then the effect runs again up
\* to its await
RailChange ==
  /\ fKind = "rail"
  /\ fAlive
  /\ nFetch < MaxFetches
  /\ fKey' = fKey + 1
  /\ fAborted' = fAborted \cup {nFetch}
  /\ nFetch' = nFetch + 1
  /\ freqs' = freqs \cup {FirstRequest(fKind, nFetch + 1, fKey + 1)}
  /\ fLoading' = TRUE
  /\ fErr' = <<>>
  /\ UNCHANGED <<fKind, fAlive, fData>>
  /\ UNCHANGED NotFetch

\* the GET resolves (a request whose signal is aborted never does)
FetchResolves(r, list) ==
  /\ r \in freqs
  /\ r.ctrl \notin fAborted
  /\ IF fKind = "belt" /\ r.stage = "nav" /\ list = <<>>
     THEN /\ freqs' = (freqs \ {r}) \cup {[r EXCEPT !.stage = "all"]}
          /\ UNCHANGED <<fData, fLoading>>
     ELSE /\ freqs' = freqs \ {r}
          /\ fData' = Loaded(list)
          /\ fLoading' = IF fKind = "rail" THEN FALSE ELSE fLoading
  /\ UNCHANGED <<fKind, fAlive, fKey, fErr, fAborted, nFetch>>
  /\ UNCHANGED NotFetch

\* the GET rejects, by an error or by the abort of its signal
FetchRejects(r) ==
  /\ r \in freqs
  /\ IF fKind = "belt" /\ r.stage = "nav"
     THEN /\ freqs' = (freqs \ {r}) \cup {[r EXCEPT !.stage = "all"]}
          /\ UNCHANGED <<fData, fLoading, fErr>>
     ELSE /\ freqs' = freqs \ {r}
          /\ IF isAborted(r.ctrl)
             THEN UNCHANGED <<fData, fLoading, fErr>>
             ELSE /\ fData' = Loaded(<<>>)
                  /\ fLoading' = IF fKind = "rail" THEN FALSE ELSE fLoading
                  /\ fErr' = IF fKind = "rail" THEN MsgCouldNotLoad ELSE fErr
  /\ UNCHANGED <<fKind, fAlive, fKey, fAborted, nFetch>>
  /\ UNCHANGED NotFetch

FetchNext ==
  \/ Teardown
  \/ RailChange
  \/ \E r \in freqs : \E list \in CatalogLists : FetchResolves(r, list)
  \/ \E r \in freqs : FetchRejects(r)

\* ========================================================== the admin guard
\* what GET /backoffice/me can do: is_staff true, is_staff false or absent,
\* a 401 or 403, no response
StaffAnswers == {"staff", "nonstaff", "denied", "neterr"}

GuardIdle ==
  /\ gOk = "null"
  /\ gRoute = "none"
  /\ gEffects = 0
  /\ gchecks = {}
  /\ gLanded = {}

\* AdminGuard is mounted at /admin: useState(null); the effect is still to
\* run, once, or twice under React.StrictMode; the runs come before anything
\* else happens
GuardInit ==
  /\ gOk = "null"
  /\ gRoute = "admin"
  /\ gEffects \in 1..2
  /\ gchecks = {}
  /\ gLanded = {}

\* a browser with or without a token of an earlier login in localStorage
GuardAuthInit ==
  /\ stored \in {<<>>, <<"a">>}
  /\ authLog = <<>>
  /\ sent = NotSent

\* a guard that takes any answer for a staff answer
anyAnswer(ans) == TRUE

\* r.data?.is_staff
isStaff(ans) == ans = "staff"

\* the effect up to its await: no token, nav("/login", ...); else the GET
GuardEffect ==
  /\ gEffects > 0
  /\ gEffects' = gEffects - 1
  /\ IF access = <<>>
     THEN /\ gRoute' = "login"
          /\ UNCHANGED gchecks
     ELSE /\ gchecks' = gchecks \cup
                          {[id |-> gEffects, pc |-> "sent", answer |-> "none",
                            header |-> intercept("absent", <<>>, access)]}
          /\ UNCHANGED gRoute
  /\ UNCHANGED <<gOk, gLanded>>
  /\ UNCHANGED NotGuard

\* the backend answers, or the request fails
GuardAnswer(r, ans) ==
  /\ gEffects = 0
  /\ r \in gchecks /\ r.pc = "sent"
  /\ gchecks' = (gchecks \ {r}) \cup {[r EXCEPT !.pc = "answered", !.answer = ans]}
  /\ UNCHANGED <<gOk, gRoute, gEffects, gLanded>>
  /\ UNCHANGED NotGuard

\* the effect after its await
GuardLands(r) ==
  /\ gEffects = 0
  /\ r \in gchecks /\ r.pc = "answered"
  /\ gchecks' = gchecks \ {r}
  /\ gLanded' = gLanded \cup {r.answer}
  /\ IF r.answer \in {"staff", "nonstaff"} /\ isStaff(r.answer)
     THEN /\ gOk' = "true"
          /\ UNCHANGED gRoute
     ELSE /\ gOk' = "false"
          /\ gRoute' = "home"
  /\ UNCHANGED gEffects
  /\ UNCHANGED NotGuard

\* RootLayout.logout while the admin route is shown: auth.clear(), nav("/")
GuardLogout ==
  /\ gEffects = 0
  /\ gRoute = "admin"
  /\ access # <<>>
  /\ stored' = authClear(stored)
  /\ gRoute' = "home"
  /\ UNCHANGED <<gOk, gEffects, gchecks, gLanded>>
  /\ UNCHANGED <<authLog, sent>>
  /\ UNCHANGED <<cartVars, clampVars, errVars, ordVars, viewVars, adminVars, searchVars,
                 fetchVars, moVars, fltVars, envVars>>

\* what the guard shows: the notice, nothing, or the admin screens
GuardShows ==
  IF gRoute # "admin" THEN "gone"
  ELSE IF gOk = "null" THEN "checking"
  ELSE IF gOk = "false" THEN "nothing"
  ELSE "children"

GuardNext ==
  \/ GuardEffect
  \/ \E r \in gchecks : \E ans \in StaffAnswers : GuardAnswer(r, ans)
  \/ \E r \in gchecks : GuardLands(r)
  \/ GuardLogout

\* ================================================ the personal-orders view
MsgMyOrdersFailed == <<"Could not load your orders.">>
LoginFromMyOrders == [to |-> "/login", from |-> "/my-orders"]

\* the statuses of a failed GET /orders/me/: 401, another status, no response
MyOrdersFailures == {401, 500, 0}

MoIdle ==
  /\ moOrders = NotLoaded
  /\ moErr = <<>>
  /\ moLoading = FALSE
  /\ redirectedRef = FALSE
  /\ moReqs = {}
  /\ moNavs = <<>>
  /\ moEffects = 0
  /\ moCalls = 0

\* MyOrders is mounted: useState(null), "", true; the effect is still to run,
\* once, or twice under React.StrictMode
MoInit ==
  /\ moOrders = NotLoaded
  /\ moErr = <<>>
  /\ moLoading = TRUE
  /\ redirectedRef = FALSE
  /\ moReqs = {}
  /\ moNavs = <<>>
  /\ moEffects \in 1..2
  /\ moCalls = 0

\* a view that redirects whatever the ref says
alwaysRedirect(ref) == TRUE

\* !redirectedRef.current
mayRedirect(ref) == ~ref

\* the view is still on screen
MoMounted == moNavs = <<>>

\* load() up to its first await or return
MoLoad ==
  /\ moCalls' = moCalls + 1
  /\ IF access = <<>>
     THEN /\ IF mayRedirect(redirectedRef)
             THEN /\ redirectedRef' = TRUE
                  /\ moNavs' = Append(moNavs, LoginFromMyOrders)
             ELSE UNCHANGED <<redirectedRef, moNavs>>
          /\ UNCHANGED <<moErr, moLoading, moReqs>>
     ELSE /\ moErr' = <<>>
          /\ moLoading' = TRUE
          /\ moReqs' = moReqs \cup
                         {[id |-> moCalls + 1, pc |-> "sent", status |-> 0,
                           header |-> intercept("absent", <<>>, access)]}
          /\ UNCHANGED <<redirectedRef, moNavs>>
  /\ UNCHANGED moOrders

\* useEffect(() => { load(); }, [])
MoEffect ==
  /\ moEffects > 0
  /\ moEffects' = moEffects - 1
  /\ MoLoad
  /\ UNCHANGED NotMo

\* the Retry button of the error banner
MoRetry ==
  /\ moEffects = 0
  /\ MoMounted
  /\ moErr # <<>>
  /\ moCalls < MaxMyLoads
  /\ MoLoad
  /\ UNCHANGED moEffects
  /\ UNCHANGED NotMo

\* the token leaves localStorage (a logout in another tab)
MoTokenGone ==
  /\ moEffects = 0
  /\ access # <<>>
  /\ stored' = authClear(stored)
  /\ UNCHANGED <<authLog, sent>>
  /\ UNCHANGED <<moOrders, moErr, moLoading, redirectedRef, moReqs, moNavs, moEffects,
                 moCalls>>
  /\ UNCHANGED <<cartVars, clampVars, errVars, ordVars, viewVars, adminVars, searchVars,
                 fetchVars, guardVars, fltVars, envVars>>

\* the backend answers with a status, or the request fails (status 0)
MoAnswer(r, st) ==
  /\ moEffects = 0
  /\ r \in moReqs /\ r.pc = "sent"
  /\ moReqs' = (moReqs \ {r}) \cup {[r EXCEPT !.pc = "answered", !.status = st]}
  /\ UNCHANGED <<moOrders, moErr, moLoading, redirectedRef, moNavs, moEffects, moCalls>>
  /\ UNCHANGED NotMo

\* load() after its await: setOrders(r.data || []), finally
MoLands(r, list) ==
  /\ r \in moReqs /\ r.pc = "answered" /\ r.status = 200
  /\ moOrders' = Loaded(list)
  /\ moLoading' = FALSE
  /\ moReqs' = moReqs \ {r}
  /\ UNCHANGED <<moErr, redirectedRef, moNavs, moEffects, moCalls>>
  /\ UNCHANGED NotMo

\* load()'s catch, finally
MoFails(r) ==
  /\ r \in moReqs /\ r.pc = "answered" /\ r.status # 200
  /\ IF r.status = 401 /\ mayRedirect(redirectedRef)
     THEN /\ redirectedRef' = TRUE
          /\ moNavs' = Append(moNavs, LoginFromMyOrders)
          /\ UNCHANGED <<moErr, moOrders>>
     ELSE /\ moErr' = MsgMyOrdersFailed
          /\ moOrders' = Loaded(<<>>)
          /\ UNCHANGED <<redirectedRef, moNavs>>
  /\ moLoading' = FALSE
  /\ moReqs' = moReqs \ {r}
  /\ UNCHANGED <<moEffects, moCalls>>
  /\ UNCHANGED NotMo

\* the error banner with its Retry button is rendered
MoShowsRetry == ~(moLoading /\ ~moOrders.loaded) /\ moErr # <<>>

MoNext ==
  \/ MoEffect
  \/ MoRetry
  \/ MoTokenGone
  \/ \E r \in moReqs : \E st \in {200} \cup MyOrdersFailures : MoAnswer(r, st)
  \/ \E r \in moReqs : \E list \in CatalogLists : MoLands(r, list)
  \/ \E r \in moReqs : MoFails(r)

\* ================================================ the catalogue filters
\* what can be typed into a price box, what a hand-written URL can carry
TypedPrices == {<<>>, <<"1">>, <<"2">>, <<"0", "2">>, <<"1", "0">>, <<"x", "2">>}
UrlPrices == {<<>>, <<"x">>}
FilterBrands == {<<>>, <<"acme">>}
UrlPages == {<<>>, <<"1">>, <<"2">>}

FltIdle ==
  /\ fltBrand = <<>>
  /\ fltMin = <<>>
  /\ fltMax = <<>>
  /\ url = [brand |-> <<>>, price_min |-> <<>>, price_max |-> <<>>, page |-> <<>>]
  /\ fltLog = "idle"
  /\ nFlt = 0

\* useState(qs.get("brand") || "") and the two price boxes, for the URL the
\* page was opened with
FltInit ==
  /\ url \in [brand : FilterBrands, price_min : UrlPrices, price_max : UrlPrices,
              page : UrlPages]
  /\ fltBrand = url.brand
  /\ fltMin = url.price_min
  /\ fltMax = url.price_max
  /\ fltLog = "mounted"
  /\ nFlt = 0

\* String(v).replace(/[^\d.]/g, "") on texts without dots
RECURSIVE normalizeNumber(_)
normalizeNumber(v) ==
  IF v = <<>> THEN <<>>
  ELSE IF IsDigit(Head(v)) THEN <<Head(v)>> \o normalizeNumber(Tail(v))
  ELSE normalizeNumber(Tail(v))

\* Number(text) is NaN
IsNaN(text) == \E k \in 1..Len(text) : ~IsDigit(text[k])

\* String(Number(text)) of a text that is a number
Canonical(text) == NumberToText(ToNumber(text))

\* the range handleApply means to write: swapped when inverted
SwappedRange(lo, hi) ==
  IF lo # <<>> /\ hi # <<>> /\ ToNumber(lo) > ToNumber(hi)
  THEN <<Canonical(hi), Canonical(lo)>>
  ELSE <<lo, hi>>

\* the mutator of handleApply: it reads brand, min and max of the render that
\* created the handler
AppliedUrl(u, brand, lo, hi) ==
  [brand |-> IF brand # <<>> THEN Trim(brand) ELSE <<>>,
   price_min |-> IF lo # <<>> THEN Canonical(lo) ELSE <<>>,
   price_max |-> IF hi # <<>> THEN Canonical(hi) ELSE <<>>,
   page |-> <<"1">>]

\* useEffect(..., [qs]): the boxes follow the URL when the URL has changed
SyncFromUrl(u, unew, brand, lo, hi) ==
  IF unew # u THEN <<unew.brand, unew.price_min, unew.price_max>>
  ELSE <<brand, lo, hi>>

FltStep(log) ==
  /\ nFlt < MaxFilterOps
  /\ nFlt' = nFlt + 1
  /\ fltLog' = log
  /\ UNCHANGED NotFlt

TypeMin(v) ==
  /\ fltMin' = normalizeNumber(v)
  /\ UNCHANGED <<fltBrand, fltMax, url>>
  /\ FltStep("typed")

TypeMax(v) ==
  /\ fltMax' = normalizeNumber(v)
  /\ UNCHANGED <<fltBrand, fltMin, url>>
  /\ FltStep("typed")

TypeBrand(b) ==
  /\ fltBrand' = b
  /\ UNCHANGED <<fltMin, fltMax, url>>
  /\ FltStep("typed")

\* handleApply and the render after it
HandleApply ==
  IF \/ (fltMin # <<>> /\ IsNaN(fltMin))
     \/ (fltMax # <<>> /\ IsNaN(fltMax))
  THEN /\ UNCHANGED <<fltBrand, fltMin, fltMax, url>>
       /\ FltStep("returned")
  ELSE LET range == SwappedRange(fltMin, fltMax)
           next == AppliedUrl(url, fltBrand, fltMin, fltMax)
           boxes == SyncFromUrl(url, next, fltBrand, range[1], range[2])
       IN /\ url' = next
          /\ fltBrand' = boxes[1]
          /\ fltMin' = boxes[2]
          /\ fltMax' = boxes[3]
          /\ FltStep("applied")

\* handleClear and the render after it
HandleClear ==
  /\ url' = [brand |-> <<>>, price_min |-> <<>>, price_max |-> <<>>, page |-> <<>>]
  /\ fltBrand' = <<>>
  /\ fltMin' = <<>>
  /\ fltMax' = <<>>
  /\ FltStep("cleared")

\* the pager of the listing writes another page into the URL
GoToPage(p) ==
  /\ p # url.page
  /\ url' = [url EXCEPT !.page = p]
  /\ fltBrand' = url.brand
  /\ fltMin' = url.price_min
  /\ fltMax' = url.price_max
  /\ FltStep("paged")

FltNext ==
  \/ \E v \in TypedPrices : TypeMin(v)
  \/ \E v \in TypedPrices : TypeMax(v)
  \/ \E b \in FilterBrands : TypeBrand(b)
  \/ HandleApply
  \/ HandleClear
  \/ \E p \in UrlPages \ {<<>>} : GoToPage(p)

\* ================================== the checkout view with a settled server
\* the quote service has not settled on one answer
FreeServer == [fixed |-> FALSE, list |-> <<>>, from |-> 0]

EnvIdle == quoteServer = FreeServer

\* requests the view may still send once the answers are fixed: one for the
\* subtotal, one for the selection
SettledQuotes == 2

\* the view while carts, answers and selections still vary
Unsettled ==
  /\ ~quoteServer.fixed
  /\ \/ \E k \in 1..2 : \E data \in CheckoutCarts : CheckoutCartLands(k, data)
     \/ \E k \in 1..2 : CheckoutCartFails(k)
     \/ \E q \in qreqs : \E list \in QuoteLists : QuoteLands(q, list)
     \/ \E q \in qreqs : QuoteFails(q)
     \/ \E id \in 1..3 : SelectQuote(id)

\* from here on the subtotal stays, every quote request is answered with
\* list, and the user leaves the page alone
Settle(list) ==
  /\ ~quoteServer.fixed
  /\ nQuotes + SettledQuotes <= MaxQuotes
  /\ quoteServer' = [fixed |-> TRUE, list |-> list, from |-> nQuotes]
  /\ UNCHANGED viewVars
  /\ UNCHANGED NotEnv

SettledCartLands(k, data) ==
  /\ quoteServer.fixed
  /\ cartTotals = NoTotals \/ data = cartTotals
  /\ CheckoutCartLands(k, data)

SettledCartFails(k) ==
  /\ quoteServer.fixed
  /\ cartTotals = NoTotals
  /\ CheckoutCartFails(k)

SettledQuoteLands(q) ==
  /\ quoteServer.fixed
  /\ QuoteLands(q, quoteServer.list)

Settled ==
  \/ \E k \in 1..2 : \E data \in CheckoutCarts : SettledCartLands(k, data)
  \/ \E k \in 1..2 : SettledCartFails(k)
  \/ \E q \in qreqs : SettledQuoteLands(q)

SettleNext ==
  \/ Unsettled
  \/ \E list \in QuoteLists : Settle(list)
  \/ Settled

\* ========================================================== specifications
InitCart == CartInit /\ ClampIdle /\ ErrIdle /\ OrdIdle /\ AuthIdle /\ ViewIdle /\ AdminListIdle /\ SearchIdle /\ FetchIdle /\ GuardIdle /\ MoIdle /\ FltIdle /\ EnvIdle
SpecCart == InitCart /\ [][CartNext]_vars

InitClamp == ClampInit /\ CartIdle /\ ErrIdle /\ OrdIdle /\ AuthIdle /\ ViewIdle /\ AdminListIdle /\ SearchIdle /\ FetchIdle /\ GuardIdle /\ MoIdle /\ FltIdle /\ EnvIdle
ClampNext == ClampCall
SpecClamp == InitClamp /\ [][ClampNext]_vars

ErrNext == QtyCatch \/ CheckoutCatch \/ CouponCatch

InitErr == ErrInit /\ CartIdle /\ ClampIdle /\ OrdIdle /\ AuthIdle /\ ViewIdle /\ AdminListIdle /\ SearchIdle /\ FetchIdle /\ GuardIdle /\ MoIdle /\ FltIdle /\ EnvIdle
SpecErr == InitErr /\ [][ErrNext]_vars

InitOrders == OrdInit /\ CartIdle /\ ClampIdle /\ ErrIdle /\ AuthIdle /\ ViewIdle /\ AdminListIdle /\ SearchIdle /\ FetchIdle /\ GuardIdle /\ MoIdle /\ FltIdle /\ EnvIdle
SpecOrders == InitOrders /\ [][OrdNext]_vars

InitAuth == AuthInit /\ CartIdle /\ ClampIdle /\ ErrIdle /\ OrdIdle /\ ViewIdle /\ AdminListIdle /\ SearchIdle /\ FetchIdle /\ GuardIdle /\ MoIdle /\ FltIdle /\ EnvIdle
SpecAuth == InitAuth /\ [][AuthNext]_vars

ViewInit == (CheckoutInit /\ AdminListIdle) \/ LoginInit \/ AdminInit
InitViews == ViewInit /\ CartIdle /\ ClampIdle /\ ErrIdle /\ OrdIdle /\ AuthIdle /\ SearchIdle /\ FetchIdle /\ GuardIdle /\ MoIdle /\ FltIdle /\ EnvIdle
ViewNext == CheckoutNext \/ FormNext \/ AdminListNext
SpecViews == InitViews /\ [][ViewNext]_vars

InitSearch == SearchInit /\ CartIdle /\ ClampIdle /\ ErrIdle /\ OrdIdle /\ AuthIdle /\ ViewIdle /\ AdminListIdle /\ FetchIdle /\ GuardIdle /\ MoIdle /\ FltIdle /\ EnvIdle
SpecSearch == InitSearch /\ [][SearchNext]_vars

InitFetch == FetchInit /\ CartIdle /\ ClampIdle /\ ErrIdle /\ OrdIdle /\ AuthIdle /\ ViewIdle /\ AdminListIdle /\ SearchIdle /\ GuardIdle /\ MoIdle /\ FltIdle /\ EnvIdle
SpecFetch == InitFetch /\ [][FetchNext]_vars

InitGuard == GuardInit /\ GuardAuthInit /\ CartIdle /\ ClampIdle /\ ErrIdle /\ OrdIdle /\ ViewIdle /\ AdminListIdle /\ SearchIdle /\ FetchIdle /\ MoIdle /\ FltIdle /\ EnvIdle
SpecGuard == InitGuard /\ [][GuardNext]_vars

InitMyOrders == MoInit /\ GuardAuthInit /\ CartIdle /\ ClampIdle /\ ErrIdle /\ OrdIdle /\ ViewIdle /\ AdminListIdle /\ SearchIdle /\ FetchIdle /\ GuardIdle /\ FltIdle /\ EnvIdle
SpecMyOrders == InitMyOrders /\ [][MoNext]_vars

InitFilters == FltInit /\ AuthIdle /\ CartIdle /\ ClampIdle /\ ErrIdle /\ OrdIdle /\ ViewIdle /\ AdminListIdle /\ SearchIdle /\ FetchIdle /\ GuardIdle /\ MoIdle /\ EnvIdle
SpecFilters == InitFilters /\ [][FltNext]_vars

\* quote answers arrive: the settled server answers every request
InitSettle == CheckoutInit /\ AdminListIdle /\ EnvIdle /\ CartIdle /\ ClampIdle /\ ErrIdle /\ OrdIdle /\ AuthIdle /\ SearchIdle /\ FetchIdle /\ GuardIdle /\ MoIdle /\ FltIdle
SpecSettle == InitSettle /\ [][SettleNext]_vars /\ WF_vars(Settled)

\* the cart view or the checkout view
InitStore == InitCart \/ InitViews
StoreNext == CartNext \/ ViewNext
SpecStore == InitStore /\ [][StoreNext]_vars

\* ================================================== properties: the cart view
\* the step in which the view handles the rejection of r's mutation request
HandlesFailure(r) ==
  /\ r \in ops
  /\ r.pc = "call"
  /\ r \notin ops'
  /\ [r EXCEPT !.pc = "resp"] \notin ops'

\* the step in which the response of r's reload lands
Lands(r) ==
  /\ r \in ops
  /\ r.pc = "getresp"
  /\ r \notin ops'

QtyInFlight == {r \in ops : r.kind = "qty"}
LineMutationsOf(i) == {r \in ops : r.kind \in LineKinds /\ r.item = i}

\* C1: a quantity change records the snapshot current at its call, before the
\* optimistic write, and when its PATCH fails (any status, or no response) the
\* snapshot after the failure is handled equals that recorded snapshot, field
\* for field.
C1_ExactRollback ==
  [][/\ \A r \in ops' \ ops :
          (r.kind = "qty" /\ r.pc = "call") => r.prev = cart
     /\ \A r \in ops :
          (r.kind = "qty" /\ HandlesFailure(r)) => cart' = r.prev]_vars

\* a quantity change has failed and the snapshot is back at the server's cart
C1_RolledBack ==
  /\ hist.n = 1
  /\ hist.kinds = {"qty"}
  /\ hist.okKinds = {}
  /\ ops = {}
  /\ err = MsgQty429
  /\ cart = CartOf(srv)

\* C2: once no quantity change is in flight, every quantity in the snapshot is
\* one the server has held for that line, so none was written only
\* optimistically by a change whose server call failed.
C2_NothingStranded ==
  (cart.present /\ QtyInFlight = {}) =>
    \A k \in 1..Len(cart.items) : cart.items[k].qty \in held[cart.items[k].id]

\* C8: at most one line mutation (PATCH or DELETE) is in flight per item id, its
\* id is in the in-flight set, and no further one starts on an id in that set.
C8_OnePerItem ==
  [][/\ \A i \in ItemIds :
          /\ Cardinality(LineMutationsOf(i)) <= 1
          /\ LineMutationsOf(i) # {} => i \in busyIds
     /\ \A r \in ops' \ ops :
          (r.kind \in LineKinds /\ r.pc = "call") => r.item \notin busyIds]_vars

\* line mutations on two different items are in flight together
C8_TwoItemsInFlight ==
  \E r1, r2 \in ops :
    /\ r1.kind \in LineKinds /\ r2.kind \in LineKinds
    /\ r1.item # r2.item
    /\ r1.pc = "call" /\ r2.pc = "call"
    /\ busyIds = ItemIds

\* C10: a reload response that lands replaces the snapshot by its data, whatever
\* the version tokens of the two and whichever reload was issued first.
C10_LastLandWins ==
  [][\A r \in ops : Lands(r) => cart' = r.data]_vars

\* every reload has landed, and the one that landed last was answered before
\* the server's latest change: the snapshot is that stale response
C10_StaleLanded ==
  /\ ops = {}
  /\ lastLand.ok
  /\ ~hist.loadFailed
  /\ cart.version = lastLand.asof
  /\ cart.version < srv.version
  /\ cart # CartOf(srv)

\* C6: when removeCoupon's POST and reload have both succeeded, the snapshot the
\* reload leaves has no coupon; so has the server's cart.
C6_CouponRemoved ==
  [][\A r \in ops :
       (r.kind = "uncoupon" /\ Lands(r)) =>
         /\ cart'.coupon = <<>>
         /\ srv.coupon = <<>>]_vars

\* a coupon was applied and shown, then removed, every call succeeding
C6_AppliedThenRemoved ==
  /\ hist.kinds = {"apply", "uncoupon"}
  /\ hist.okKinds = {"apply", "uncoupon"}
  /\ ~hist.loadFailed
  /\ ops = {}
  /\ lastLand.kind = "uncoupon"
  /\ cart.present
  /\ cart.coupon = <<>>

\* C9: a quantity change and a coupon application overlapped, both server calls
\* succeeded and every reload has completed successfully: the snapshot equals
\* the server's cart.
C9_Reconciled ==
  ( /\ hist.n = 2
    /\ hist.kinds = {"qty", "apply"}
    /\ hist.race
    /\ hist.okKinds = {"qty", "apply"}
    /\ ~hist.loadFailed
    /\ ops = {} )
  => cart = CartOf(srv)

\* ========================================= properties: the quantity sent
\* C3: the quantity changeQty sends, and writes optimistically, is 1 when the
\* requested one is below 1, the maximum when the cart carries a non-zero
\* max_qty below the requested one, and the requested one otherwise; so it is
\* >= 1 and, when a maximum is present, <= the maximum.
C3_Clamped ==
  patchQty # 0 =>
    /\ reqQty < 1 => patchQty = 1
    /\ (reqCart.max_qty # 0 /\ reqQty > reqCart.max_qty) =>
         patchQty = reqCart.max_qty
    /\ (reqQty >= 1 /\ ~(reqCart.max_qty # 0 /\ reqQty > reqCart.max_qty)) =>
         patchQty = reqQty
    /\ shownQty = patchQty
    /\ patchQty >= 1
    /\ reqCart.max_qty # 0 => patchQty <= reqCart.max_qty

\* a request above a present maximum has been sent
C3_AboveMaximum ==
  /\ patchQty # 0
  /\ reqCart.max_qty # 0
  /\ reqQty > reqCart.max_qty
  /\ patchQty < reqQty

\* ============================= properties: the message of a failed server call
Dedicated429 ==
  CASE errFlow = "qty" -> MsgQty429
    [] errFlow = "checkout" -> MsgCheckout429
    [] OTHER -> MsgCoupon429

\* C4: a 429 handled by the coupon, checkout or quantity flow shows that flow's
\* slow-down message, whatever detail and message the payload carries.
C4_Always429Message ==
  (errFlow # "none" /\ errE.status = 429) => errMsg = Dedicated429

\* the text the server gave: data.detail, else data.message
ServerText(e) == IF e.detail # <<>> THEN e.detail ELSE e.message

\* "Available:", any whitespace, a digit: the pattern starts at p of t
PatternAt(t, p) ==
  \E q \in (p + 1)..Len(t) :
    /\ t[p] \in AvailTokens
    /\ \A k \in (p + 1)..(q - 1) : t[k] = " "
    /\ IsDigit(t[q])

HasPattern(t) == \E p \in 1..Len(t) : PatternAt(t, p)

\* the N of the first "Available: N" of t
PatternNumber(t) ==
  LET p == CHOOSE x \in 1..Len(t) :
             PatternAt(t, x) /\ \A y \in 1..(x - 1) : ~PatternAt(t, y)
      q == CHOOSE x \in (p + 1)..Len(t) :
             IsDigit(t[x]) /\ \A k \in (p + 1)..(x - 1) : t[k] = " "
      r == CHOOSE x \in q..Len(t) :
             /\ \A k \in q..x : IsDigit(t[k])
             /\ x = Len(t) \/ ~IsDigit(t[x + 1])
  IN ToNumber(SubSeq(t, q, r))

\* the message shows the number n
ShowsNumber(msg, n) ==
  \E a \in 1..Len(msg) : \E b \in a..Len(msg) :
    /\ \A k \in a..b : IsDigit(msg[k])
    /\ ToNumber(SubSeq(msg, a, b)) = n

\* the message has the word "left"
ShowsLeft(msg) ==
  \E k \in 1..Len(msg) : msg[k] \in {" left.", " left on one or more items."}

FlowFallback ==
  IF errFlow = "qty" THEN MsgQtyFallback ELSE MsgCheckoutFallback

\* C5: in the quantity and checkout flows a 409 whose server text has
\* "Available: N" shows a message with N and the word "left"; a 409 without
\* the pattern, and any other status but 429, shows the server's detail, else
\* its message, verbatim, else the flow's fallback.
C5_StockMessage ==
  (errFlow \in {"qty", "checkout"} /\ errE.status # 429) =>
    IF errE.status = 409 /\ HasPattern(ServerText(errE))
    THEN /\ ShowsNumber(errMsg, PatternNumber(ServerText(errE)))
         /\ ShowsLeft(errMsg)
    ELSE errMsg = (IF ServerText(errE) # <<>> THEN ServerText(errE)
                   ELSE FlowFallback)

\* a 409 with a zero-padded count, handled by the quantity flow
C5_ParsedCount ==
  /\ errFlow = "qty"
  /\ errE.status = 409
  /\ errE.detail = <<"AVAILABLE:", "0", "7">>
  /\ errMsg = <<"Stock changed - only ", "7", " left.">>

\* ================================================ properties: the orders view
\* e is the remembered address s without the blanks around it, or the demo
\* address when nothing but blanks is remembered
IsLookupEmail(e, s) ==
  IF \A k \in 1..Len(s) : s[k] = " " THEN e = DemoEmail
  ELSE \E a \in 1..Len(s) : \E b \in a..Len(s) :
         /\ s[a] # " " /\ s[b] # " "
         /\ \A k \in 1..Len(s) : (k < a \/ k > b) => s[k] = " "
         /\ e = SubSeq(s, a, b)

\* the step in which the view handles the answer r
Handles(r) == r \in loads /\ r.pc = "answered" /\ r \notin loads'

\* C7: with a token stored, a 401 to /orders/me/ handled before the view has
\* shown any list makes the view send the public fetch keyed by the remembered
\* email, else the demo email, without a bearer, and show no empty list in its
\* place; when that fetch succeeds the view shows its list with the
\* session-expired message.
C7_SessionExpiredFallback ==
  [][\A r \in loads :
       /\ ( /\ Handles(r)
            /\ token # <<>>
            /\ r.req.path = "/orders/me/"
            /\ r.status = 401
            /\ ~orders.shown )
          => /\ \E f \in loads' :
                  /\ f.id = r.id
                  /\ f.pc = "sent"
                  /\ f.req.path = "/orders/"
                  /\ f.req.bearer = <<>>
                  /\ IsLookupEmail(f.req.email, userEmail)
             /\ orders' = orders
             /\ ordErr' = ordErr
       /\ ( /\ Handles(r)
            /\ r.phase = "fallback"
            /\ r.status = 200 )
          => /\ orders' = [shown |-> TRUE, list |-> r.data]
             /\ ordErr' = MsgSessionExpired]_vars

\* the fallback of a single mount load has shown the orders of the remembered
\* address under the session-expired message
C7_FallbackShown ==
  /\ token # <<>>
  /\ userEmail = <<" ", "u", " ">>
  /\ nLoads = 1
  /\ loads = {}
  /\ orders = [shown |-> TRUE, list |-> <<7>>]
  /\ ordErr = MsgSessionExpired

\* ========================================== properties: the cart view, part 2
\* the step in which the view handles the rejection of r's reload
HandlesLoadFailure(r) ==
  /\ r \in ops
  /\ r.pc = "get"
  /\ r \notin ops'
  /\ \A r2 \in ops' : ~(r2.kind = r.kind /\ r2.item = r.item /\ r2.pc = "getresp")

Totals == {"subtotal", "discount_total", "tax_total", "shipping_total",
           "grand_total"}

\* C11: a reload whose GET succeeds replaces the snapshot by the response,
\* field for field; a reload whose GET fails leaves the empty zeroed cart (no
\* items, every total 0, no coupon, no version) and an error message.
C11_ReloadReplaces ==
  [][\A r \in ops :
       /\ Lands(r) => \A f \in DOMAIN r.data : cart'[f] = r.data[f]
       /\ HandlesLoadFailure(r) =>
            /\ cart'.present
            /\ cart'.items = <<>>
            /\ \A f \in Totals : cart'[f] = 0
            /\ cart'.coupon = <<>>
            /\ cart'.version = 0
            /\ err' # <<>>]_vars

\* the reload of a successful coupon application failed: the items and the
\* coupon the view had shown are gone
C11_ReloadFailed ==
  /\ ops = {}
  /\ lastLand.kind = "apply"
  /\ ~lastLand.ok
  /\ srv.coupon # <<>>
  /\ cart = EmptyCart
  /\ err = MsgLoadFallback

\* C12: removeItem changes nothing in the snapshot when it starts nor while
\* its DELETE is under way; the snapshot changes only when the reload after a
\* successful DELETE settles; a failed DELETE leaves the snapshot as it was,
\* sets an error message and issues no reload.
C12_NoOptimisticRemoval ==
  [][/\ \A r \in ops' \ ops :
          (r.kind = "remove" /\ r.pc = "call") => cart' = cart
     /\ \A r \in ops :
          (r.kind = "remove" /\ r \notin ops' /\ r.pc \in {"call", "resp"})
            => cart' = cart
     /\ \A r \in ops :
          (r.kind = "remove" /\ HandlesFailure(r)) =>
            /\ cart' = cart
            /\ err' # <<>>
            /\ \A r2 \in ops' : ~(r2.kind = "remove" /\ r2.item = r.item)]_vars

\* a removal has failed and the line is still shown
C12_RemovalFailed ==
  /\ hist.n = 1
  /\ hist.kinds = {"remove"}
  /\ hist.okKinds = {}
  /\ ops = {}
  /\ err = MsgRemoveFallback
  /\ \A i \in ItemIds : HasItem(cart, i)

\* C13: the optimistic step of changeQty writes the qty of the matching line
\* and nothing else; and the grand total of the snapshot changes only to the
\* one of a landed response, to the 0 of the empty cart of a failed reload, or
\* back to the one of a snapshot restored by a rollback.
C13_OnlyQtyChanges ==
  [][/\ \A r \in ops' \ ops :
          (r.kind = "qty" /\ r.pc = "call") =>
            /\ \A f \in DOMAIN cart : f # "items" => cart'[f] = cart[f]
            /\ Len(cart'.items) = Len(cart.items)
            /\ \A k \in 1..Len(cart.items) :
                 /\ cart'.items[k].id = cart.items[k].id
                 /\ cart'.items[k].qty =
                      IF cart.items[k].id = r.item THEN r.qty
                      ELSE cart.items[k].qty
     /\ cart'.grand_total # cart.grand_total =>
          \/ \E r \in ops : Lands(r) /\ cart'.grand_total = r.data.grand_total
          \/ \E r \in ops : HandlesLoadFailure(r) /\ cart'.grand_total = 0
          \/ \E r \in ops : /\ r.kind = "qty" /\ HandlesFailure(r)
                            /\ cart'.grand_total = r.prev.grand_total]_vars

\* a quantity is shown optimistically while the total is still the server's
\* one for the old quantities
C13_TotalNotRecomputed ==
  /\ \E r \in ops : r.kind = "qty" /\ r.pc = "call" /\ r.qty # QtyOf(r.prev, r.item)
  /\ cart.present
  /\ cart.grand_total = CartOf(srv).grand_total
  /\ cart.items # CartOf(srv).items

CheckoutEnabled == CheckoutControl(cart) = "link"

\* C14: with a loaded snapshot the checkout control is enabled exactly when
\* the snapshot has an item; and when the reload after a successful removal
\* brings no item, the view shows the empty-cart state with checkout disabled.
C14_CheckoutIffItems ==
  [][/\ cart.present => (CheckoutEnabled <=> Len(cart.items) >= 1)
     /\ \A r \in ops :
          (r.kind = "remove" /\ Lands(r) /\ r.data.items = <<>>) =>
            /\ ShowsEmptyCart(cart')
            /\ CheckoutControl(cart') = "disabled"]_vars

\* the last line has been removed and the reload has landed
C14_LastItemRemoved ==
  /\ ops = {}
  /\ hist.okKinds = {"remove"}
  /\ lastLand.kind = "remove"
  /\ lastLand.ok
  /\ \A i \in ItemIds : srv.lines[i] = 0
  /\ ShowsEmptyCart(cart)
  /\ ~CheckoutEnabled

\* ============================ properties: the auth store and the API client
\* C15: a request marked public leaves with no Authorization header, whatever
\* token is stored and whatever header it carried; one not marked public
\* leaves with "Bearer <token>" when a token is stored and with nothing added
\* when none is.
C15_InterceptorCredential ==
  sent.done =>
    IF sent.mark \in {"num1", "str1", "true"} THEN sent.header = <<>>
    ELSE IF sent.token # <<>> THEN sent.header = <<"Bearer ">> \o sent.token
    ELSE sent.header = sent.preset

\* a public request that carried a stale header left without it while a token
\* was stored
C15_PublicStripped ==
  /\ sent.done
  /\ sent.mark = "str1"
  /\ sent.preset = <<"Bearer ", "old">>
  /\ sent.token = <<"b">>
  /\ sent.header = <<>>

\* the token a history of calls leaves
RECURSIVE TokenAfter(_)
TokenAfter(log) ==
  IF log = <<>> THEN <<>>
  ELSE LET last == log[Len(log)]
       IN IF last.op = "clear" THEN <<>>
          ELSE IF last.tokens.access # <<>> THEN last.tokens.access
          ELSE TokenAfter(SubSeq(log, 1, Len(log) - 1))

\* C16: access() is the access token of the latest set that carried one and
\* that no clear has followed, and absent otherwise; a set without an access
\* token changes nothing; after clear, access() is absent.
C16_AuthStore ==
  [][/\ access' = TokenAfter(authLog')
     /\ authLog' # authLog =>
          LET call == authLog'[Len(authLog')]
          IN /\ (call.op = "set" /\ call.tokens.access = <<>>) => access' = access
             /\ call.op = "clear" => access' = <<>>]_vars

\* a set without an access token after a set with one: the token is kept
C16_SetWithoutAccess ==
  /\ Len(authLog) = 2
  /\ authLog[1].op = "set" /\ authLog[1].tokens.access = <<"b">>
  /\ authLog[2].op = "set" /\ authLog[2].tokens.access = <<>>
  /\ authLog[2].tokens.refresh = <<"r">>
  /\ access = <<"b">>

\* a step in which a loadQuotes call ends with a list
QuoteLanded == \E q \in qreqs : q \notin qreqs' /\ lastQuote' = "ok"

\* C17: after every successful quote response the selected shipping id is the
\* id selected before if the new list has it, else the first id of the new
\* list, else none.
C17_SelectionKept ==
  [][QuoteLanded => shippingId' = SelectCurrent(quotes', shippingId, shippingId)]_vars

\* the quote requests a step sends
QuotesSent == qreqs' \ qreqs

\* C18: a step that makes the subtotal known or changes it to a non-zero value
\* sends a quote request; every quote request carries the current, non-zero
\* subtotal and no other field, so none is sent while the subtotal is absent
\* or zero.
C18_QuotesKeyedOnSubtotal ==
  [][/\ (subtotalOf(cartTotals') # subtotalOf(cartTotals) /\ subtotalOf(cartTotals') # 0)
          => QuotesSent # {}
     /\ \A q \in QuotesSent :
          /\ q.body = [subtotal |-> subtotalOf(cartTotals')]
          /\ subtotalOf(cartTotals') # 0]_vars

\* the subtotal changed from 50 to 80 and each value has its own request
C18_RefetchedOnChange ==
  /\ cartTotals.subtotal = 80
  /\ \E q1, q2 \in qreqs : q1.id < q2.id /\ q1.body.subtotal = 50 /\ q2.body.subtotal = 80

OtherKinds == {"remove", "apply", "uncoupon"}

\* the step in which the catch and finally blocks of a refused checkout run
HandlesRefusal(r) == r \in subs /\ r.view = "checkout" /\ r \notin subs' /\ trig' = "failed"

\* C19: when the server call of a line removal, a coupon apply or a coupon
\* removal fails, the snapshot is left as it is, a message is set and the busy
\* flag of the operation is cleared; when a checkout submission fails, there is
\* still no placed order, a message is set and loading is cleared.
C19_FailureLeavesState ==
  [][/\ \A r \in ops :
          (r.kind \in OtherKinds /\ HandlesFailure(r)) =>
            /\ cart' = cart
            /\ err' # <<>>
            /\ r.kind \in CouponKinds => ~busy'
            /\ r.kind = "remove" => r.item \notin busyIds'
     /\ \A r \in subs :
          HandlesRefusal(r) =>
            /\ order' = 0
            /\ formErr' # <<>>
            /\ ~loading']_vars

\* a coupon apply has failed: the cart is the server's, the typed code is kept
\* and the coupon controls are free again
C19_ApplyFailed ==
  /\ hist.n = 1
  /\ hist.kinds = {"apply"}
  /\ hist.okKinds = {}
  /\ ops = {}
  /\ err # <<>>
  /\ ~busy
  /\ code # <<>>
  /\ cart = CartOf(srv)

\* a checkout submission has failed and a second one is in flight
C19_CheckoutRetried ==
  /\ nSubs = 2
  /\ formErr = <<>>
  /\ order = 0
  /\ loading

\* the requests of the view's operation that are in flight
InFlight == {r \in subs : r.pc = "post"}

\* C20: at most one request of the operation is in flight; a request is sent
\* only by a trigger that finds the view not busy, so a trigger that arrives
\* while the view is busy sends none, then or later; and after a placed order
\* the checkout view sends no further order request.
C20_BusyDropsTriggers ==
  [][/\ Cardinality(InFlight') <= 1
     /\ nSubs' # nSubs => (~loading /\ InFlight = {} /\ trig' = "sent")
     /\ (trig' = "dropped" /\ trig # "dropped") => (subs' = subs /\ nSubs' = nSubs)
     /\ order # 0 => (nSubs' = nSubs /\ subs' \subseteq subs)]_vars

\* a second submit of the login form arrived while the first was in flight
C20_LoginTriggerDropped ==
  /\ route = "login"
  /\ trig = "dropped"
  /\ loading
  /\ Cardinality(InFlight) = 1
  /\ nSubs = 1

\* ================================================= properties: the admin lists
AdminCalls == adminOps \cup subs
ListGetSent == \E op \in AdminCalls' : op.pc = "load" /\ op \notin AdminCalls
ListGetEnded == \E op \in AdminCalls : op.pc = "load" /\ op \notin AdminCalls'

RowApplied == \E op \in adminOps : op.pc = "call" /\ op \notin adminOps' /\ adminLog' = "applied"

\* C21: the step that handles the success of a create, toggle or delete sends
\* the list GET; the rows shown change only in a step that ends a list GET; a
\* DELETE is sent only in a step whose prompt was accepted.
C21_RefetchAfterMutation ==
  [][/\ (srvRows' # srvRows \/ RowApplied) => ListGetSent
     /\ rows' # rows => ListGetEnded
     /\ \A op \in adminOps' \ adminOps :
          (op.kind = "delete" /\ op.pc = "call") => adminLog' = "accepted"]_vars

\* a row was deactivated and the refetched list shows it
C21_ToggleShown ==
  /\ route \in AdminViews
  /\ nAdminOps = 1
  /\ adminOps = {}
  /\ adminLog = "applied"
  /\ rows = {[id |-> 1, active |-> FALSE]}
  /\ rows = srvRows

\* ================================================ properties: the search bar
LiveLookups == {r \in sreqs : ~r.aborted}
LookupsSent == (sreqs' \ {[r EXCEPT !.aborted = TRUE] : r \in sreqs}) \ sreqs

\* C22: at most one suggestion request is not aborted; the end of an aborted
\* request changes neither the list nor the loading flag; at most one debounce
\* timer is armed and a request is sent for the term of the last keystroke
\* only; a timer that fires for a term shorter than 2 sends nothing and
\* empties the list.
C22_AbortAndDebounce ==
  [][/\ Cardinality(LiveLookups') <= 1
     /\ \A r \in sreqs :
          (r.aborted /\ r \notin sreqs') =>
            (suggestions' = suggestions /\ sLoading' = sLoading)
     /\ Cardinality(timers') <= 1
     /\ \A r \in LookupsSent : r.term = lastTerm /\ Len(r.term) >= 2
     /\ \A t \in timers :
          (t \notin timers' /\ timers' \subseteq timers /\ Len(t.term) < 2) =>
            (LookupsSent = {} /\ suggestions' = <<>>)]_vars

\* a lookup was superseded by a newer one: one aborted, one live
C22_Superseded ==
  /\ \E r \in sreqs : r.aborted
  /\ \E r \in sreqs : ~r.aborted
  /\ sLoading

\* ====================================== properties: the fetching components
\* C23: the end of a request whose controller was aborted, by the teardown or
\* by a change of the rail's source or params, leaves the component's state as
\* it is, and a torn down component's state never changes.
C23_NoUpdateAfterTeardown ==
  [][/\ \A r \in freqs :
          (r.ctrl \in fAborted /\ r \notin freqs') =>
            UNCHANGED <<fData, fLoading, fErr>>
     /\ ~fAlive => UNCHANGED <<fData, fLoading, fErr>>]_vars

\* a belt was torn down while loading; its requests have ended and it still
\* shows nothing
C23_TornDownWhileLoading ==
  /\ fKind = "belt"
  /\ ~fAlive
  /\ freqs = {}
  /\ fData = NotLoaded

\* ================================================ properties: the admin guard
\* C24: the admin screens are shown only when a staff check of this guard has
\* come back with is_staff true, sent with the stored token; without a token
\* no check is sent and the guard goes to the login; a check that fails or
\* reports a non-staff user leaves nothing shown and goes to the home page.
C24_StaffOnly ==
  [][/\ GuardShows' = "children" => ("staff" \in gLanded' /\ access # <<>>)
     /\ \A r \in gchecks' \ gchecks :
          r.pc = "sent" => (r.header = <<"Bearer ">> \o access /\ access # <<>>)
     /\ (gEffects' < gEffects /\ access = <<>>) => (gchecks' = {} /\ gRoute' = "login")
     /\ \A r \in gchecks :
          (r.pc = "answered" /\ r.answer # "staff" /\ r \notin gchecks') =>
            (gOk' = "false" /\ gRoute' = "home" /\ GuardShows' # "children")]_vars

\* the check came back with is_staff true and the admin screens are shown
C24_StaffAdmitted ==
  /\ GuardShows = "children"
  /\ gLanded = {"staff"}
  /\ gchecks = {}
  /\ gEffects = 0

\* ======================================= properties: the personal-orders view
MoHandles(r) == r \in moReqs /\ r.pc = "answered" /\ r \notin moReqs'

\* C25: a request is sent only with a token stored, and bears it; a load()
\* without a token, or the first 401, goes to the login with the return path
\* /my-orders; the view navigates at most once; any other failure shows the
\* error with an empty list and the Retry button.
C25_RedirectOnce ==
  [][/\ \A r \in moReqs' \ moReqs :
          r.pc = "sent" => (access # <<>> /\ r.header = <<"Bearer ">> \o access)
     /\ Len(moNavs') <= 1
     /\ \A k \in 1..Len(moNavs') : moNavs'[k] = LoginFromMyOrders
     /\ (moCalls' # moCalls /\ access = <<>>) =>
          (moReqs' = moReqs /\ Len(moNavs') = 1)
     /\ \A r \in moReqs :
          (MoHandles(r) /\ r.status = 401) =>
            (Len(moNavs') = 1 /\ (moNavs = <<>> => moErr' = moErr))
     /\ \A r \in moReqs :
          (MoHandles(r) /\ r.status \notin {200, 401}) =>
            (moErr' = MsgMyOrdersFailed /\ moOrders' = Loaded(<<>>) /\ MoShowsRetry')]_vars

\* the list failed with a status other than 401, Retry was clicked without a
\* token, and the view went to the login
C25_RetryRedirected ==
  /\ moErr = MsgMyOrdersFailed
  /\ moOrders = Loaded(<<>>)
  /\ moCalls = 2
  /\ moReqs = {}
  /\ moNavs = <<LoginFromMyOrders>>

\* ========================================== properties: the catalogue filters
Inverted == fltMin # <<>> /\ fltMax # <<>> /\ ~IsNaN(fltMin) /\ ~IsNaN(fltMax)
            /\ ToNumber(fltMin) > ToNumber(fltMax)

FltApplied == nFlt' # nFlt /\ fltLog' = "applied"

\* C26: an Apply with the minimum above the maximum writes the two swapped,
\* so that the URL has price_min <= price_max; every Apply writes page 1.
C26_RangeOrderedInUrl ==
  [][FltApplied =>
       /\ url'.page = <<"1">>
       /\ Inverted =>
            /\ url'.price_min = Canonical(fltMax)
            /\ url'.price_max = Canonical(fltMin)
            /\ ToNumber(url'.price_min) <= ToNumber(url'.price_max)]_vars

\* every Apply writes page 1
C26_PageReset == [][FltApplied => url'.page = <<"1">>]_vars

\* an Apply left an inverted range in the URL
C26_InvertedInUrl ==
  /\ fltLog = "applied"
  /\ url.price_min # <<>> /\ url.price_max # <<>>
  /\ ToNumber(url.price_min) > ToNumber(url.price_max)

\* C27: the shipping method of a submitted order, if any, is the id of a
\* quote of the list the view holds when it submits; with no quotes held the
\* payload names no shipping method.
C27_ShippingFromHeldQuotes ==
  [][\A r \in subs' \ subs :
       r.view = "checkout" =>
         /\ r.shipId # 0 => InList(quotes, r.shipId)
         /\ quotes = <<>> => r.shipId = 0]_vars

\* an order was submitted with a shipping method while no quote was held
C27_SubmittedWithoutQuotes ==
  \E r \in subs : r.view = "checkout" /\ r.shipId # 0 /\ quotes = <<>>
                  /\ lastQuote = "failed" /\ trig = "sent"

\* ============================== properties: the checkout view, settled server
Quiet == quoteServer.fixed /\ qreqs = {} /\ coLoads = {}

\* C28: with the subtotal fixed, every quote request answered with the same
\* list and no user input, the view sends at most SettledQuotes further quote
\* requests, every request ends, and from then on the selected shipping id,
\* the quote list and the requests sent no longer change.
C28_QuotesQuiesce ==
  /\ [](quoteServer.fixed => nQuotes <= quoteServer.from + SettledQuotes)
  /\ quoteServer.fixed ~> Quiet
  /\ [][Quiet => (Quiet' /\ UNCHANGED <<shippingId, quotes, nQuotes>>)]_vars

\* the server settled with a request in flight and another selection on
\* screen, the view sent a further request, and everything has ended
C28_QuietAfterRefetch ==
  /\ Quiet
  /\ quoteServer.from >= 1
  /\ nQuotes > quoteServer.from
  /\ quotes = quoteServer.list
  /\ InList(quotes, shippingId)

\* ===================================================== properties: busy flags
LineOpsInFlight == {r.item : r \in {o \in ops : o.kind \in LineKinds}}
CouponOpInFlight == \E r \in ops : r.kind \in CouponKinds

\* C29: an item id is in busyIds exactly while a quantity change or removal
\* of that item is in flight, busy is set exactly while a coupon apply or
\* remove is in flight, and with no cart operation in flight no flag is set.
C29_BusyTracksInFlight ==
  /\ busyIds = LineOpsInFlight
  /\ busy <=> CouponOpInFlight
  /\ ops = {} => (~busy /\ busyIds = {})

\* a coupon apply failed while a line operation was still in flight: its flag
\* is cleared, the line's flag is still set
C29_CouponEndedLineBusy ==
  /\ "apply" \in hist.kinds
  /\ ~CouponOpInFlight
  /\ ~busy
  /\ err # NoErr
  /\ busyIds # {}
  /\ busyIds = LineOpsInFlight

\* ================================================== properties: after logout
\* the latest auth.clear() has no later auth.set that stored a token
AfterLogout ==
  \E k \in 1..Len(authLog) :
     /\ authLog[k].op = "clear"
     /\ \A j \in (k + 1)..Len(authLog) :
           ~(authLog[j].op = "set" /\ authLog[j].tokens.access # <<>>)

IsBearer(hdr) == hdr # <<>> /\ hdr[1] = "Bearer "

\* C30: after a logout and until a login stores a token, a request that a
\* view passes to the API client (no view sets an Authorization header of
\* its own) leaves without a bearer credential.
C30_NoBearerAfterLogout ==
  [][(AfterLogout /\ sent' # sent /\ sent'.preset = <<>>) =>
       (~IsBearer(sent'.header) /\ sent'.header = <<>>)]_vars

\* a token was stored, the user logged out, and a request that is not marked
\* public went out after that without a credential
C30_SentAfterLogout ==
  /\ Len(authLog) = 2
  /\ authLog[1].op = "set" /\ authLog[1].tokens.access # <<>>
  /\ authLog[2].op = "clear"
  /\ sent.done /\ sent.at = 2
  /\ ~isPublic(sent.mark)
  /\ sent.preset = <<>>
  /\ sent.header = <<>>

====
